---- MODULE Spec2Model ----
(***************************************************************************)
(* PersistentSolverUtils (pyomo/solver/util.py): the bookkeeping that      *)
(* keeps a solver backend's copy of a Pyomo model in step with the live    *)
(* model.  Python object identity is modelled by names: a variable, a      *)
(* constraint, an expression object or a bound object is its name, and     *)
(* "is" / "is not" become = / #.  Every public method is one action; the   *)
(* abstract backend primitives (_add_variables, ...) are recorded in the   *)
(* call log `calls` and folded into the mirror `backend`.                  *)
(***************************************************************************)
EXTENDS Integers, Sequences, FiniteSets, TLC

VARIABLES
    model,      \* the live Pyomo model (mutated by the user, and by fix/unfix)
    solver,     \* the fields of the PersistentSolverUtils object
    backend,    \* what the backend holds: the net effect of the primitives
    calls,      \* the backend primitives issued by the last public call
    last,       \* the last public call: name, arguments, outcome
    since       \* what changed in the model since the last completed update()

vars == <<model, solver, backend, calls, last, since>>

----------------------------------------------------------------------------
(* Bounds of the model.                                                    *)

\* a backend primitive may raise: the MaxFailAt first primitives of a call
MaxFailAt == 2
\* number of distinct bound objects a variable's upper bound may be set to
MaxUb == 2
\* number of edits of the model between two calls of the solver object
MaxEdits == 1

----------------------------------------------------------------------------
(* The universe of objects.                                                *)

None == "None"

VarOrder == <<"x", "y", "z">>
Vars == {VarOrder[i] : i \in 1..Len(VarOrder)}
ConOrder == <<"c1", "c2">>
Cons == {ConOrder[i] : i \in 1..Len(ConOrder)}
SosOrder == <<"s1">>
Sos == {SosOrder[i] : i \in 1..Len(SosOrder)}
ObjOrder == <<"o1", "o2">>
Objs == {ObjOrder[i] : i \in 1..Len(ObjOrder)}
ParamOrder == <<"p1", "p2">>
Params == {ParamOrder[i] : i \in 1..Len(ParamOrder)}
MutableParams == {"p1"}
NamedExprs == {"n1"}
Exprs == {"e1", "e2", "e3", "e4", "e5", "e6", "e7"}
InnerExprs == {"e4", "e5"}
Senses == {"minimize", "maximize"}

\* The variable leaves of an expression object, not counting what lies under
\* a named expression.  e1 and e2 are two objects of the same structure.
ExprLeaves(e) ==
    CASE e = "e1" -> {"x", "y"}
      [] e = "e2" -> {"x", "y"}
      [] e = "e3" -> {"y"}
      [] e = "e4" -> {"z"}
      [] e = "e5" -> {"x"}
      [] e = "e6" -> {"z"}
      [] e = "e7" -> {"x", "y"}
      [] OTHER -> {}

\* The mutable parameters that occur in an expression object: the body of
\* c1 (e1) multiplies by p1.  The walker treats a parameter as a leaf and
\* collects nothing for it.
ExprParams(e) == IF e = "e1" THEN {"p1"} ELSE {}

\* The named expression nodes that occur in an expression object.
ExprNamedNodes(e) == IF e \in {"e3", "e6", "e7"} THEN {"n1"} ELSE {}

\* Bound objects of a constraint: 0 is None, 1 and 2 are two NumericConstant
\* objects of value 5, 3 is a NumericConstant of value 7, 4 is an expression.
BoundObjs == 0..4
IsNumericConstant(b) == b \in {1, 2, 3}
BoundValue(b) == IF b = 3 THEN 7 ELSE 5

\* The options of UpdateConfig.
ConfigOptions ==
    {"check_for_new_or_removed_vars", "update_vars",
     "check_for_new_or_removed_params", "update_params",
     "check_for_new_or_removed_constraints", "update_constraints",
     "update_named_expressions", "check_for_new_objective",
     "update_objective", "treat_fixed_vars_as_params"}

----------------------------------------------------------------------------
(* Helpers for dictionaries and lists.                                     *)

EmptyMap == [k \in {} |-> k]
Put(f, k, x) == [j \in DOMAIN f \cup {k} |-> IF j = k THEN x ELSE f[j]]
Del(f, k) == [j \in DOMAIN f \ {k} |-> f[j]]
Range(q) == {q[i] : i \in 1..Len(q)}
\* the members of S as a list, in declaration order
ListOf(S, order) == SelectSeq(order, LAMBDA a : a \in S)

----------------------------------------------------------------------------
(* The state a method works on: the live model m, the object's fields s,   *)
(* the backend mirror b, the primitives issued so far, the exception that  *)
(* is propagating (err), the number of the primitive that will raise       *)
(* (failAt, 0 for none) and add_constraints' local all_fixed_vars.  Once   *)
(* err is set every later statement is skipped, as an exception does.      *)

Raise(st, kind) == IF st.err # "ok" THEN st ELSE [st EXCEPT !.err = kind]

FixedVars(m) == {v \in Vars : m.var[v].fixed}

IsReferenced(s, v) ==
    /\ v \in DOMAIN s._referenced_variables
    /\ \/ s._referenced_variables[v].cons # {}
       \/ s._referenced_variables[v].sos # {}
       \/ s._referenced_variables[v].obj # None

\* What a primitive does to the backend's content.
Effect(b, op, args) ==
    CASE op = "add_variables" -> [b EXCEPT !.vars = @ \cup Range(args)]
      [] op = "remove_variables" -> [b EXCEPT !.vars = @ \ Range(args)]
      [] op = "add_params" -> [b EXCEPT !.params = @ \cup Range(args)]
      [] op = "remove_params" -> [b EXCEPT !.params = @ \ Range(args)]
      [] op = "add_constraints" -> [b EXCEPT !.cons = @ \cup Range(args)]
      [] op = "remove_constraints" -> [b EXCEPT !.cons = @ \ Range(args)]
      [] op = "add_sos_constraints" -> [b EXCEPT !.sos = @ \cup Range(args)]
      [] op = "remove_sos_constraints" -> [b EXCEPT !.sos = @ \ Range(args)]
      [] op = "set_objective" -> [b EXCEPT !.obj = args[1]]
      [] OTHER -> b

\* One abstract primitive (_add_variables, _remove_constraints, ...): it is
\* logged with the state it is called in, and either takes effect or raises.
\* The mirror b is kept for a loaded model (set_instance) only.
Backend(st, op, args) ==
    IF st.err # "ok" THEN st
    ELSE LET n == Len(st.calls) + 1
             raised == (n = st.failAt)
             entry == [op |-> op, args |-> args, raised |-> raised,
                       fixed |-> FixedVars(st.m),
                       registered |-> DOMAIN st.s._referenced_variables,
                       params |-> st.s._params,
                       referenced |-> {v \in Vars : IsReferenced(st.s, v)}]
         IN [st EXCEPT !.calls = Append(@, entry),
                       !.b = IF raised \/ st.s._model = None THEN @
                             ELSE Effect(@, op, args),
                       !.err = IF raised THEN "BackendError" ELSE "ok"]

\* (var, var._lb, var._ub, var.fixed, var.domain.get_interval(), var.value)
VarSnapshot(m, v) ==
    [lb |-> m.var[v].lb, ub |-> m.var[v].ub, fixed |-> m.var[v].fixed,
     domain |-> m.var[v].domain, value |-> m.var[v].value]

NoReferences == [cons |-> {}, sos |-> {}, obj |-> None]

RECURSIVE add_variables_loop(_, _)
add_variables_loop(st, variables) ==
    IF st.err # "ok" \/ variables = <<>> THEN st
    ELSE LET v == Head(variables) IN
         IF v \in DOMAIN st.s._referenced_variables
         THEN Raise(st, "ValueError")
         ELSE add_variables_loop(
                [st EXCEPT !.s._referenced_variables = Put(@, v, NoReferences),
                           !.s._vars = Put(@, v, VarSnapshot(st.m, v))],
                Tail(variables))

add_variables(st, variables) ==
    Backend(add_variables_loop(st, variables), "add_variables", variables)

add_params(st, params) ==
    IF st.err # "ok" THEN st
    ELSE Backend([st EXCEPT !.s._params = @ \cup Range(params)],
                 "add_params", params)

_check_for_new_vars(st, variables) ==
    IF st.err # "ok" THEN st
    ELSE add_variables(st,
           SelectSeq(variables,
                     LAMBDA v : v \notin DOMAIN st.s._referenced_variables))

\* as still_used, the SOS references forgotten
still_used_ignoring_sos(s, v) ==
    \/ s._referenced_variables[v].cons # {}
    \/ s._referenced_variables[v].obj # None

\* line 408: cons_using or sos_using or (obj_using is not None)
still_used(s, v) ==
    \/ s._referenced_variables[v].cons # {}
    \/ s._referenced_variables[v].sos # {}
    \/ s._referenced_variables[v].obj # None

\* as remove_variables_loop, the snapshot in _vars kept
RECURSIVE remove_variables_loop_keeping_snapshot(_, _)
remove_variables_loop_keeping_snapshot(st, variables) ==
    IF st.err # "ok" \/ variables = <<>> THEN st
    ELSE LET v == Head(variables) IN
         IF v \notin DOMAIN st.s._referenced_variables
         THEN Raise(st, "ValueError")
         ELSE IF still_used(st.s, v)
         THEN Raise(st, "ValueError")
         ELSE remove_variables_loop_keeping_snapshot(
                [st EXCEPT !.s._referenced_variables = Del(@, v)],
                Tail(variables))

RECURSIVE remove_variables_loop(_, _)
remove_variables_loop(st, variables) ==
    IF st.err # "ok" \/ variables = <<>> THEN st
    ELSE LET v == Head(variables) IN
         IF v \notin DOMAIN st.s._referenced_variables
         THEN Raise(st, "ValueError")
         ELSE IF still_used(st.s, v)
         THEN Raise(st, "ValueError")
         ELSE IF v \notin DOMAIN st.s._vars
         THEN Raise([st EXCEPT !.s._referenced_variables = Del(@, v)],
                    "KeyError")
         ELSE remove_variables_loop(
                [st EXCEPT !.s._referenced_variables = Del(@, v),
                           !.s._vars = Del(@, v)],
                Tail(variables))

remove_variables(st, variables) ==
    remove_variables_loop(Backend(st, "remove_variables", variables),
                          variables)

_check_to_remove_vars(st, variables) ==
    IF st.err # "ok" THEN st
    ELSE IF \E i \in 1..Len(variables) :
              variables[i] \notin DOMAIN st.s._referenced_variables
    THEN Raise(st, "KeyError")
    ELSE remove_variables(st,
           SelectSeq(variables, LAMBDA v : ~IsReferenced(st.s, v)))

RECURSIVE remove_params_loop(_, _)
remove_params_loop(st, params) ==
    IF st.err # "ok" \/ params = <<>> THEN st
    ELSE IF Head(params) \notin st.s._params
    THEN Raise(st, "KeyError")
    ELSE remove_params_loop([st EXCEPT !.s._params = @ \ {Head(params)}],
                            Tail(params))

remove_params(st, params) ==
    remove_params_loop(Backend(st, "remove_params", params), params)

RECURSIVE update_variables_loop(_, _)
update_variables_loop(st, variables) ==
    IF st.err # "ok" \/ variables = <<>> THEN st
    ELSE update_variables_loop(
           [st EXCEPT !.s._vars =
                          Put(@, Head(variables),
                              VarSnapshot(st.m, Head(variables)))],
           Tail(variables))

update_variables(st, variables) ==
    Backend(update_variables_loop(st, variables), "update_variables",
            variables)

\* the abstract parameter refresh hook
update_params(st) == Backend(st, "update_params", <<>>)

----------------------------------------------------------------------------
(* The expression walker.  visiting_potential_leaf answers (False, None)   *)
(* for a named expression exactly as for any other expression node, so the *)
(* traversal goes on below it, into its current inner expression.          *)

\* The expression objects as trees: the children of a node, left to right.
\* "k" is a Python number; e7 is x * (y + n1) * x, its middle child the
\* expression node e3.  The child of a named expression is its current
\* inner expression.
NonPyomoLeaves == {"k"}

ExprArgs(m, node) ==
    CASE node = "e1" -> <<"x", "y", "p1">>
      [] node = "e2" -> <<"x", "y">>
      [] node = "e3" -> <<"y", "n1">>
      [] node = "e4" -> <<"z", "k">>
      [] node = "e5" -> <<"x">>
      [] node = "e6" -> <<"z", "n1">>
      [] node = "e7" -> <<"x", "e3", "x">>
      [] node \in NamedExprs -> <<m.named[node]>>
      [] OTHER -> <<>>

\* _VarAndNamedExprCollector.__init__: the dictionaries, in insertion order
NewVisitor == [named_expressions |-> <<>>, variables |-> <<>>,
               fixed_vars |-> <<>>]

\* d[id(node)] = node
Insert(d, node) == IF node \in Range(d) THEN d ELSE Append(d, node)

\* visiting_potential_leaf: what the node adds to the dictionaries ...
visiting_potential_leaf(vis, m, node) ==
    IF node \in NonPyomoLeaves THEN vis
    ELSE IF node \in Vars
    THEN [vis EXCEPT !.variables = Insert(@, node),
                     !.fixed_vars = IF m.var[node].fixed
                                    THEN Insert(@, node) ELSE @]
    ELSE IF node \in NamedExprs
    THEN [vis EXCEPT !.named_expressions = Insert(@, node)]
    ELSE vis

\* ... and whether it answers (True, None), which ends the descent; a
\* named expression and an expression node answer (False, None)
IsLeaf(node) == node \notin NamedExprs /\ node \notin Exprs

\* ExpressionValueVisitor.dfs_postorder_stack: visit() does nothing, so the
\* walk is the calls of visiting_potential_leaf, parents first
RECURSIVE dfs_postorder_stack(_, _, _)
RECURSIVE dfs_children(_, _, _)
dfs_children(vis, m, nodes) ==
    IF nodes = <<>> THEN vis
    ELSE dfs_children(dfs_postorder_stack(vis, m, Head(nodes)), m,
                      Tail(nodes))

dfs_postorder_stack(vis, m, node) ==
    IF IsLeaf(node) THEN visiting_potential_leaf(vis, m, node)
    ELSE dfs_children(visiting_potential_leaf(vis, m, node), m,
                      ExprArgs(m, node))

\* as walk, without _visitor.__init__(): the dictionaries of the earlier
\* call are kept
walk_without_reset(vis, m, expr) == dfs_postorder_stack(vis, m, expr)

\* lines 120-128 on the module-level _visitor: the visitor after the call;
\* the lists returned are its dictionaries' values
walk(vis, m, expr) == dfs_postorder_stack(NewVisitor, m, expr)

RECURSIVE WalkVars(_, _)
WalkVars(m, expr) ==
    ExprLeaves(expr)
        \cup UNION {WalkVars(m, m.named[n]) : n \in ExprNamedNodes(expr)}

RECURSIVE WalkNamed(_, _)
WalkNamed(m, expr) ==
    ExprNamedNodes(expr)
        \cup UNION {WalkNamed(m, m.named[n]) : n \in ExprNamedNodes(expr)}

collect_vars_and_named_exprs(m, expr) ==
    [named_exprs |-> WalkNamed(m, expr),
     variables |-> ListOf(WalkVars(m, expr), VarOrder),
     fixed_vars |-> ListOf(WalkVars(m, expr) \cap FixedVars(m), VarOrder)]

\* [(e, e.expr) for e in named_exprs]
NamedSnapshot(m, named_exprs) == {<<n, m.named[n]>> : n \in named_exprs}

\* v.unfix() / v.fix() for every v of a list: the flag alone changes
SetFixed(m, variables, flag) ==
    [m EXCEPT !.var = [v \in Vars |->
        IF v \in Range(variables) THEN [@[v] EXCEPT !.fixed = flag]
        ELSE @[v]]]

\* for v in variables: self._referenced_variables[id(v)][0 or 1][con] = None
RECURSIVE link_loop(_, _, _, _)
link_loop(st, variables, slot, con) ==
    IF st.err # "ok" \/ variables = <<>> THEN st
    ELSE LET v == Head(variables) IN
         IF v \notin DOMAIN st.s._referenced_variables
         THEN Raise(st, "KeyError")
         ELSE link_loop(
                [st EXCEPT !.s._referenced_variables[v] =
                    IF slot = "cons" THEN [@ EXCEPT !.cons = @ \cup {con}]
                    ELSE [@ EXCEPT !.sos = @ \cup {con}]],
                Tail(variables), slot, con)

\* for v in ...: self._referenced_variables[id(v)][0 or 1].pop(con)
RECURSIVE unlink_loop(_, _, _, _)
unlink_loop(st, variables, slot, con) ==
    IF st.err # "ok" \/ variables = <<>> THEN st
    ELSE LET v == Head(variables) IN
         IF v \notin DOMAIN st.s._referenced_variables
         THEN Raise(st, "KeyError")
         ELSE IF con \notin st.s._referenced_variables[v][slot]
         THEN Raise(st, "KeyError")
         ELSE unlink_loop(
                [st EXCEPT !.s._referenced_variables[v] =
                    IF slot = "cons" THEN [@ EXCEPT !.cons = @ \ {con}]
                    ELSE [@ EXCEPT !.sos = @ \ {con}]],
                Tail(variables), slot, con)

\* as already_added, the test left out
already_added_never(s, con) == FALSE

\* line 237: con in self._named_expressions
already_added(s, con) == con \in DOMAIN s._named_expressions

\* line 266: con in self._vars_referenced_by_con
sos_already_added(s, con) == con \in DOMAIN s._vars_referenced_by_con

\* lines 241-249: the snapshot of the constraint and what it references
record_constraint(st, con, tmp) ==
    IF st.err # "ok" THEN st
    ELSE [st EXCEPT
            !.s._named_expressions =
                Put(@, con, NamedSnapshot(st.m, tmp.named_exprs)),
            !.s._vars_referenced_by_con = Put(@, con, tmp.variables)]

\* lines 244-245, 272-273, 297-298: if not self._only_child_vars
check_for_new_vars_unless_only_child(st, variables) ==
    IF ~st.s._only_child_vars THEN _check_for_new_vars(st, variables)
    ELSE st

\* as unfix_fixed_vars, the fixed variables left fixed
unfix_fixed_vars_never(st, fixed_vars) == st

\* lines 252-255: the fixed variables are unfixed and remembered
unfix_fixed_vars(st, fixed_vars) ==
    IF st.err # "ok" \/ "treat_fixed_vars_as_params" \in st.s._update_config
    THEN st
    ELSE [st EXCEPT !.m = SetFixed(@, fixed_vars, FALSE),
                    !.all_fixed_vars = @ \cup Range(fixed_vars)]

\* lines 241-255: the body of the loop for a constraint not yet added
add_one_constraint(st, con, tmp) ==
    unfix_fixed_vars(
        link_loop(
            record_constraint(
                check_for_new_vars_unless_only_child(
                    [st EXCEPT !.s._active_constraints =
                        Put(@, con, [lower |-> st.m.con[con].lower,
                                     body |-> st.m.con[con].body,
                                     upper |-> st.m.con[con].upper])],
                    tmp.variables),
                con, tmp),
            tmp.variables, "cons", con),
        tmp.fixed_vars)

RECURSIVE add_constraints_loop(_, _)
add_constraints_loop(st, cons) ==
    IF st.err # "ok" \/ cons = <<>> THEN st
    ELSE IF already_added(st.s, Head(cons))
    THEN Raise(st, "ValueError")
    ELSE add_constraints_loop(
           add_one_constraint(
               st, Head(cons),
               collect_vars_and_named_exprs(st.m, st.m.con[Head(cons)].body)),
           Tail(cons))

\* as add_constraints, the variables not fixed again after the primitive
add_constraints_no_refix(st, cons) ==
    Backend(add_constraints_loop([st EXCEPT !.all_fixed_vars = {}], cons),
            "add_constraints", cons)

\* lines 257-258: for v in all_fixed_vars.values(): v.fix()
fix_all_fixed_vars(st) ==
    IF st.err # "ok" THEN st
    ELSE [st EXCEPT
            !.m = SetFixed(@, ListOf(st.all_fixed_vars, VarOrder), TRUE)]

add_constraints(st, cons) ==
    fix_all_fixed_vars(
        Backend(add_constraints_loop([st EXCEPT !.all_fixed_vars = {}], cons),
                "add_constraints", cons))

\* lines 274-275
record_sos_constraint(st, con, variables) ==
    IF st.err # "ok" THEN st
    ELSE [st EXCEPT !.s._named_expressions = Put(@, con, {}),
                    !.s._vars_referenced_by_con = Put(@, con, variables)]

\* lines 270-277: the body of the loop for an SOS constraint not yet added
add_one_sos_constraint(st, con, variables) ==
    link_loop(
        record_sos_constraint(
            check_for_new_vars_unless_only_child(
                [st EXCEPT !.s._active_constraints = Put(@, con, <<>>)],
                variables),
            con, variables),
        variables, "sos", con)

RECURSIVE add_sos_constraints_loop(_, _)
add_sos_constraints_loop(st, cons) ==
    IF st.err # "ok" \/ cons = <<>> THEN st
    ELSE IF sos_already_added(st.s, Head(cons))
    THEN Raise(st, "ValueError")
    ELSE add_sos_constraints_loop(
           add_one_sos_constraint(st, Head(cons), st.m.sos[Head(cons)].vars),
           Tail(cons))

\* as add_sos_constraints, the primitive issued before the bookkeeping
add_sos_constraints_backend_first(st, cons) ==
    add_sos_constraints_loop(Backend(st, "add_sos_constraints", cons), cons)

add_sos_constraints(st, cons) ==
    Backend(add_sos_constraints_loop(st, cons), "add_sos_constraints", cons)

\* for v in ...: self._referenced_variables[id(v)][2] = obj
RECURSIVE link_obj_loop(_, _, _)
link_obj_loop(st, variables, obj) ==
    IF st.err # "ok" \/ variables = <<>> THEN st
    ELSE IF Head(variables) \notin DOMAIN st.s._referenced_variables
    THEN Raise(st, "KeyError")
    ELSE link_obj_loop(
           [st EXCEPT !.s._referenced_variables[Head(variables)].obj = obj],
           Tail(variables), obj)

\* as check_to_remove_obj_vars, nothing removed
check_to_remove_obj_vars_never(st) == st

\* lines 288-289
check_to_remove_obj_vars(st) ==
    IF ~st.s._only_child_vars
    THEN _check_to_remove_vars(st, st.s._vars_referenced_by_obj)
    ELSE st

\* lines 285-290: the references of the objective in place are released
retire_objective(st) ==
    IF st.s._objective = None THEN st
    ELSE check_to_remove_obj_vars(
           link_obj_loop(st, st.s._vars_referenced_by_obj, None))

\* lines 299, 302
record_objective(st, tmp) ==
    IF st.err # "ok" THEN st
    ELSE [st EXCEPT
            !.s._obj_named_expressions = NamedSnapshot(st.m, tmp.named_exprs),
            !.s._vars_referenced_by_obj = tmp.variables]

\* lines 305-307
unfix_obj_fixed_vars(st, fixed_vars) ==
    IF st.err # "ok" \/ "treat_fixed_vars_as_params" \in st.s._update_config
    THEN st
    ELSE [st EXCEPT !.m = SetFixed(@, fixed_vars, FALSE)]

\* lines 309-310: for v in fixed_vars: v.fix()
fix_obj_fixed_vars(st, fixed_vars) ==
    IF st.err # "ok" THEN st
    ELSE [st EXCEPT !.m = SetFixed(@, fixed_vars, TRUE)]

\* lines 292-310: obj is not None
install_objective(st, obj, tmp) ==
    fix_obj_fixed_vars(
        Backend(
            unfix_obj_fixed_vars(
                link_obj_loop(
                    record_objective(
                        check_for_new_vars_unless_only_child(
                            [st EXCEPT
                               !.s._objective = obj,
                               !.s._objective_expr = st.m.obj[obj].expr,
                               !.s._objective_sense = st.m.obj[obj].sense],
                            tmp.variables),
                        tmp),
                    tmp.variables, obj),
                tmp.fixed_vars),
            "set_objective", <<obj>>),
        tmp.fixed_vars)

\* lines 291-317, after the objective in place was retired
set_new_objective(st, obj) ==
    IF st.err # "ok" THEN st
    ELSE IF obj # None
    THEN install_objective(
           st, obj, collect_vars_and_named_exprs(st.m, st.m.obj[obj].expr))
    ELSE Backend([st EXCEPT !.s._vars_referenced_by_obj = <<>>,
                            !.s._objective = None,
                            !.s._objective_expr = None,
                            !.s._objective_sense = None,
                            !.s._obj_named_expressions = {}],
                 "set_objective", <<None>>)

set_objective(st, obj) ==
    IF st.err # "ok" THEN st
    ELSE set_new_objective(retire_objective(st), obj)

\* as check_to_remove_con_vars, the released variables left registered
check_to_remove_con_vars_never(st, con) == st

\* lines 366-367: if not self._only_child_vars
check_to_remove_con_vars(st, con) ==
    IF ~st.s._only_child_vars
    THEN _check_to_remove_vars(st, st.s._vars_referenced_by_con[con])
    ELSE st

\* as forget_constraint, the records of the constraint kept
forget_constraint_never(st, con) == st

\* lines 368-371 and 389-391: the constraint's records are deleted
forget_constraint(st, con) ==
    IF st.err # "ok" THEN st
    ELSE [st EXCEPT !.s._active_constraints = Del(@, con),
                    !.s._named_expressions = Del(@, con),
                    !.s._vars_referenced_by_con = Del(@, con)]

RECURSIVE remove_constraints_loop(_, _)
remove_constraints_loop(st, cons) ==
    IF st.err # "ok" \/ cons = <<>> THEN st
    ELSE IF Head(cons) \notin DOMAIN st.s._named_expressions
    THEN Raise(st, "ValueError")
    ELSE remove_constraints_loop(
           forget_constraint(
               check_to_remove_con_vars(
                   unlink_loop(st, st.s._vars_referenced_by_con[Head(cons)],
                               "cons", Head(cons)),
                   Head(cons)),
               Head(cons)),
           Tail(cons))

remove_constraints(st, cons) ==
    remove_constraints_loop(Backend(st, "remove_constraints", cons), cons)

\* as check_to_remove_sos_vars, the released variables left registered
check_to_remove_sos_vars_never(st, con) == st

\* line 388: the check is made whatever only_child_vars is
check_to_remove_sos_vars(st, con) ==
    IF st.err # "ok" THEN st
    ELSE _check_to_remove_vars(st, st.s._vars_referenced_by_con[con])

RECURSIVE remove_sos_constraints_loop(_, _)
remove_sos_constraints_loop(st, cons) ==
    IF st.err # "ok" \/ cons = <<>> THEN st
    ELSE IF Head(cons) \notin DOMAIN st.s._vars_referenced_by_con
    THEN Raise(st, "ValueError")
    ELSE remove_sos_constraints_loop(
           forget_constraint(
               check_to_remove_sos_vars(
                   unlink_loop(st, st.s._vars_referenced_by_con[Head(cons)],
                               "sos", Head(cons)),
                   Head(cons)),
               Head(cons)),
           Tail(cons))

remove_sos_constraints(st, cons) ==
    remove_sos_constraints_loop(
        Backend(st, "remove_sos_constraints", cons), cons)

----------------------------------------------------------------------------
(* What the model's component iterators yield.  The only block is the      *)
(* model itself.                                                           *)

ActiveConstraints(m) == ListOf({c \in Cons : m.con[c].active}, ConOrder)
ActiveSosConstraints(m) == ListOf({c \in Sos : m.sos[c].active}, SosOrder)
ActiveObjectives(m) == ListOf({o \in Objs : m.obj[o].active}, ObjOrder)
ModelVars(m) == ListOf(m.declared, VarOrder)
ModelParams(m) == ListOf(m.params, ParamOrder)
ModelMutableParams(m) == ListOf(m.params \cap MutableParams, ParamOrder)

\* get_objective: the active objective, None, or ValueError for several
get_objective(m) ==
    LET objs == ActiveObjectives(m)
    IN IF Len(objs) > 1 THEN [err |-> "ValueError", obj |-> None]
       ELSE IF Len(objs) = 1 THEN [err |-> "ok", obj |-> objs[1]]
       ELSE [err |-> "ok", obj |-> None]

\* lines 326-334: if self._only_child_vars: self.add_variables(...)
add_block_variables(st) ==
    IF st.err = "ok" /\ st.s._only_child_vars
    THEN add_variables(st, ModelVars(st.m))
    ELSE st

\* lines 335-346
add_block_constraints(st) ==
    IF st.err # "ok" THEN st ELSE add_constraints(st, ActiveConstraints(st.m))

add_block_sos_constraints(st) ==
    IF st.err # "ok" THEN st
    ELSE add_sos_constraints(st, ActiveSosConstraints(st.m))

\* the same statements taking the first active objective, never raising
add_block_objective_first_active(st, obj) ==
    IF st.err # "ok" THEN st
    ELSE IF ActiveObjectives(st.m) # <<>>
    THEN set_objective(st, ActiveObjectives(st.m)[1])
    ELSE st

\* lines 347-349
add_block_objective(st, obj) ==
    IF st.err # "ok" THEN st
    ELSE IF obj.err # "ok" THEN Raise(st, obj.err)
    ELSE IF obj.obj # None THEN set_objective(st, obj.obj)
    ELSE st

add_block(st) ==
    add_block_objective(
        add_block_sos_constraints(
            add_block_constraints(
                add_block_variables(
                    add_params(st, ModelMutableParams(st.m))))),
        get_objective(st.m))

\* lines 440-452: if self._only_child_vars: self.remove_variables(...)
remove_block_variables(st) ==
    IF st.err = "ok" /\ st.s._only_child_vars
    THEN remove_variables(st, ModelVars(st.m))
    ELSE st

remove_block_sos_constraints(st) ==
    IF st.err # "ok" THEN st
    ELSE remove_sos_constraints(st, ActiveSosConstraints(st.m))

remove_block_params(st) ==
    IF st.err # "ok" THEN st ELSE remove_params(st, ModelParams(st.m))

remove_block(st) ==
    remove_block_params(
        remove_block_variables(
            remove_block_sos_constraints(
                remove_constraints(st, ActiveConstraints(st.m)))))

\* PersistentSolverUtils.__init__
NewSolver(only_child_vars, config) ==
    [_model |-> None,
     _active_constraints |-> EmptyMap,
     _vars |-> EmptyMap,
     _params |-> {},
     _objective |-> None,
     _objective_expr |-> None,
     _objective_sense |-> None,
     _named_expressions |-> EmptyMap,
     _obj_named_expressions |-> {},
     _update_config |-> config,
     _referenced_variables |-> EmptyMap,
     _vars_referenced_by_con |-> EmptyMap,
     _vars_referenced_by_obj |-> <<>>,
     _only_child_vars |-> only_child_vars]

\* lines 180-181: if self._objective is None: self.set_objective(None)
set_no_objective(st) ==
    IF st.err = "ok" /\ st.s._objective = None
    THEN set_objective(st, None)
    ELSE st

\* self.__init__() is called without arguments: only_child_vars is False
set_instance(st) ==
    set_no_objective(
        add_block([st EXCEPT !.s = [NewSolver(FALSE, st.s._update_config)
                                       EXCEPT !._model = "model"]]))

----------------------------------------------------------------------------
(* update(): the differential pass.                                        *)

Enabled(s, option) == option \in s._update_config

\* as BoundChanged, identity alone compared
BoundChanged_identity(new, old) == new # old

\* the comparison of one bound with its snapshot (lines 599-618)
BoundChanged(new, old) ==
    /\ new # old
    /\ ~(/\ IsNumericConstant(new)
         /\ IsNumericConstant(old)
         /\ BoundValue(new) = BoundValue(old))

\* as ConstraintChanged, every registered constraint taken as changed
ConstraintChanged_always(st, c) == TRUE

\* the constraint diff of lines 593-618 for one registered constraint
ConstraintChanged(st, c) ==
    LET snap == st.s._active_constraints[c]
    IN \/ st.m.con[c].body # snap.body
       \/ BoundChanged(st.m.con[c].lower, snap.lower)
       \/ BoundChanged(st.m.con[c].upper, snap.upper)

\* as VarChanged, the upper bound not compared
VarChanged_ignoring_ub(st, v) ==
    LET snap == st.s._vars[v]
        live == st.m.var[v]
    IN \/ snap.lb # live.lb
       \/ snap.fixed # live.fixed
       \/ (snap.fixed /\ snap.value # live.value)
       \/ snap.domain # live.domain

\* the elif chain of lines 635-647 for one variable
VarChanged(st, v) ==
    LET snap == st.s._vars[v]
        live == st.m.var[v]
    IN \/ snap.lb # live.lb
       \/ snap.ub # live.ub
       \/ snap.fixed # live.fixed
       \/ (snap.fixed /\ snap.value # live.value)
       \/ snap.domain # live.domain

\* the branch of lines 639-645: reached only when both bounds are unchanged
VarCoupled(st, v) ==
    LET snap == st.s._vars[v]
        live == st.m.var[v]
    IN /\ snap.lb = live.lb
       /\ snap.ub = live.ub
       /\ \/ snap.fixed # live.fixed
          \/ (snap.fixed /\ snap.value # live.value)
       /\ Enabled(st.s, "treat_fixed_vars_as_params")

\* as NamedChanged, a redefinition never noticed
NamedChanged_never(m, expr_list) == FALSE

\* lines 661-664 and 667-670: a captured named expression was redefined
NamedChanged(m, expr_list) == \E pair \in expr_list : m.named[pair[1]] # pair[2]

\* lines 498-559: what the scan of the model finds
Discover(st) ==
    LET s == st.s
        m == st.m
        scan_vars == s._only_child_vars
                     /\ (Enabled(s, "check_for_new_or_removed_vars")
                         \/ Enabled(s, "update_vars"))
        scan_params == Enabled(s, "check_for_new_or_removed_params")
        scan_cons == Enabled(s, "check_for_new_or_removed_constraints")
                     \/ Enabled(s, "update_constraints")
        current_vars == IF scan_vars THEN m.declared ELSE {}
        current_params == m.params \cap MutableParams
        current_cons == IF scan_cons THEN Range(ActiveConstraints(m)) ELSE {}
        current_sos == IF scan_cons THEN Range(ActiveSosConstraints(m)) ELSE {}
        known == DOMAIN s._vars_referenced_by_con
    IN [err |-> IF (scan_vars \/ scan_params \/ scan_cons) /\ s._model = None
                THEN "AttributeError" ELSE "ok",
        current_vars |-> current_vars,
        new_vars |-> IF scan_vars THEN current_vars \ DOMAIN s._vars ELSE {},
        old_vars |-> IF scan_vars THEN DOMAIN s._vars \ current_vars ELSE {},
        start_vars |-> DOMAIN s._vars,
        new_params |-> IF scan_params THEN current_params \ s._params ELSE {},
        old_params |-> IF scan_params THEN s._params \ current_params ELSE {},
        current_cons |-> current_cons,
        current_sos |-> current_sos,
        new_cons |-> current_cons \ known,
        new_sos |-> current_sos \ known,
        old_cons |-> IF scan_cons
                     THEN (known \cap Cons) \ (current_cons \cup current_sos)
                     ELSE {},
        old_sos |-> IF scan_cons
                    THEN (known \cap Sos) \ (current_cons \cup current_sos)
                    ELSE {}]

\* lines 560-578: stale entities out, then new entities in
\* lines 568-569: if config.update_params: self.update_params()
update_params_if_enabled(st) ==
    IF Enabled(st.s, "update_params") THEN update_params(st) ELSE st

\* the same statements with the additions issued before the removals
update_structure_adds_first(st, d) ==
    remove_params(
        remove_sos_constraints(
            remove_constraints(
                add_sos_constraints(
                    add_constraints(
                        add_variables(
                            add_params(
                                update_params_if_enabled(st),
                                ListOf(d.new_params, ParamOrder)),
                            ListOf(d.new_vars, VarOrder)),
                        ListOf(d.new_cons, ConOrder)),
                    ListOf(d.new_sos, SosOrder)),
                ListOf(d.old_cons, ConOrder)),
            ListOf(d.old_sos, SosOrder)),
        ListOf(d.old_params, ParamOrder))

update_structure(st, d) ==
    add_sos_constraints(
        add_constraints(
            add_variables(
                add_params(
                    update_params_if_enabled(
                        remove_params(
                            remove_sos_constraints(
                                remove_constraints(
                                    st, ListOf(d.old_cons, ConOrder)),
                                ListOf(d.old_sos, SosOrder)),
                            ListOf(d.old_params, ParamOrder))),
                    ListOf(d.new_params, ParamOrder)),
                ListOf(d.new_vars, VarOrder)),
            ListOf(d.new_cons, ConOrder)),
        ListOf(d.new_sos, SosOrder))

\* lines 584-618: the registered constraints whose body or bounds changed
cons_diff(st, d) ==
    IF Enabled(st.s, "update_constraints") /\ st.err = "ok"
    THEN {c \in d.current_cons \ d.new_cons : ConstraintChanged(st, c)}
    ELSE {}

\* lines 619-620: every registered SOS constraint is removed and added again
update_sos(st, d) ==
    IF Enabled(st.s, "update_constraints")
    THEN LET sos_to_update == ListOf(d.current_sos \ d.new_sos, SosOrder)
         IN add_sos_constraints(remove_sos_constraints(st, sos_to_update),
                                sos_to_update)
    ELSE st

\* lines 623-630
vars_to_check(st, d) ==
    IF st.s._only_child_vars /\ Enabled(st.s, "update_vars")
    THEN d.current_vars \ d.new_vars
    ELSE IF Enabled(st.s, "update_vars")
    THEN DOMAIN st.s._vars \cap d.start_vars
    ELSE {}

\* lines 631-648: the variable diff; the lookups raise KeyError for a
\* variable without a record
update_vars(st, d) ==
    IF st.err # "ok" \/ ~Enabled(st.s, "update_vars") THEN st
    ELSE LET check == vars_to_check(st, d)
         IN IF \E v \in check :
                 \/ v \notin DOMAIN st.s._vars
                 \/ (VarCoupled(st, v)
                       /\ v \notin DOMAIN st.s._referenced_variables)
            THEN Raise(st, "KeyError")
            ELSE update_variables(
                   st, ListOf({v \in check : VarChanged(st, v)}, VarOrder))

\* lines 641-645: what the coupling of fixed variables queues
coupled_vars(st, d) ==
    IF st.err # "ok" \/ ~Enabled(st.s, "update_vars") THEN {}
    ELSE {v \in vars_to_check(st, d) :
            /\ v \in DOMAIN st.s._vars
            /\ v \in DOMAIN st.s._referenced_variables
            /\ VarCoupled(st, v)}

\* the same statements replacing the first such constraint only
update_named_expressions_first_only(st, d) ==
    IF st.err # "ok" \/ ~Enabled(st.s, "update_named_expressions") THEN st
    ELSE LET cons_to_update ==
               ListOf({c \in DOMAIN st.s._named_expressions \ d.new_cons :
                         NamedChanged(st.m, st.s._named_expressions[c])},
                      ConOrder)
             first == SubSeq(cons_to_update, 1,
                             IF cons_to_update = <<>> THEN 0 ELSE 1)
         IN add_constraints(remove_constraints(st, first), first)

\* lines 656-666
update_named_expressions(st, d) ==
    IF st.err # "ok" \/ ~Enabled(st.s, "update_named_expressions") THEN st
    ELSE LET cons_to_update ==
               ListOf({c \in DOMAIN st.s._named_expressions \ d.new_cons :
                         NamedChanged(st.m, st.s._named_expressions[c])},
                      ConOrder)
         IN add_constraints(remove_constraints(st, cons_to_update),
                            cons_to_update)

\* lines 667-687
update_objective(st, need_to_set_objective) ==
    IF st.err # "ok" THEN st
    ELSE LET
      need1 == \/ need_to_set_objective
               \/ /\ Enabled(st.s, "update_named_expressions")
                  /\ NamedChanged(st.m, st.s._obj_named_expressions)
      check == Enabled(st.s, "check_for_new_objective")
      got == get_objective(st.m)
      pyomo_obj == IF check THEN got.obj ELSE st.s._objective
      need2 == need1 \/ (check /\ pyomo_obj # st.s._objective)
      need3 == \/ need2
               \/ /\ Enabled(st.s, "update_objective")
                  /\ pyomo_obj # None
                  /\ \/ st.m.obj[pyomo_obj].expr # st.s._objective_expr
                     \/ st.m.obj[pyomo_obj].sense # st.s._objective_sense
    IN IF check /\ st.s._model = None THEN Raise(st, "AttributeError")
       ELSE IF check /\ got.err # "ok" THEN Raise(st, got.err)
       ELSE IF need3 THEN set_objective(st, pyomo_obj)
       ELSE st

\* lines 641-643 and 649: the constraints to replace
cons_to_remove_and_add(st, d, diff) ==
    ListOf(diff \cup UNION {st.s._referenced_variables[v].cons :
                              v \in coupled_vars(st, d)},
           ConOrder)

\* lines 644-645
need_to_set_objective_for_vars(st, d) ==
    \E v \in coupled_vars(st, d) : st.s._referenced_variables[v].obj # None

\* as replace_constraints, the queued constraints left in place
replace_constraints_skipped(st, cons) == st

\* lines 650-651
replace_constraints(st, cons) ==
    add_constraints(remove_constraints(st, cons), cons)

\* lines 689-692, reached when nothing raised
remove_old_vars(st, d) == remove_variables(st, ListOf(d.old_vars, VarOrder))

\* lines 622-692: st is the state after the SOS constraints were re-added,
\* diff what the constraint diff queued
update_after_sos(st, d, diff) ==
    remove_old_vars(
        update_objective(
            update_named_expressions(
                replace_constraints(update_vars(st, d),
                                    cons_to_remove_and_add(st, d, diff)),
                d),
            need_to_set_objective_for_vars(st, d)),
        d)

\* lines 579-692: st is the state after the removals and additions
update_after_structure(st, d) ==
    update_after_sos(update_sos(st, d), d, cons_diff(st, d))

\* lines 560-692
update_scanned(st, d) ==
    IF d.err # "ok" THEN Raise(st, d.err)
    ELSE update_after_structure(update_structure(st, d), d)

update(st) == update_scanned(st, Discover(st))

----------------------------------------------------------------------------
(* The initial state: a model with constraints c1: x + y and c2: y + n1    *)
(* (n1 a named expression over x), the SOS constraint s1 over y and z,     *)
(* the objectives o1 (over z, active) and o2 (over x), a mutable           *)
(* parameter p1 and x fixed; a freshly constructed solver object; an       *)
(* empty backend.                                                          *)

InitModel ==
    [var |-> [v \in Vars |->
                [lb |-> 0, ub |-> 1, fixed |-> (v = "x"), domain |-> 0,
                 value |-> 0]],
     declared |-> Vars,
     con |-> [c \in Cons |->
                [active |-> TRUE, lower |-> 0,
                 body |-> IF c = "c1" THEN "e1" ELSE "e3", upper |-> 1]],
     sos |-> [c \in Sos |-> [active |-> TRUE, vars |-> <<"y", "z">>]],
     obj |-> [o \in Objs |->
                [active |-> (o = "o1"),
                 expr |-> IF o = "o1" THEN "e4" ELSE "e5",
                 sense |-> "minimize"]],
     named |-> [n \in NamedExprs |-> "e5"],
     params |-> {"p1"}]

EmptyBackend ==
    [vars |-> {}, params |-> {}, cons |-> {}, sos |-> {}, obj |-> None]

AllChecks == ConfigOptions \ {"treat_fixed_vars_as_params"}

\* `since`: what the user changed since the last update() pass that
\* returned: nothing (clean), the upper bound of v alone (ub), or more
\* (dirty); and how many edits were made.
Clean == [kind |-> "clean", v |-> None, edits |-> 0]
Dirty(n) == [kind |-> "dirty", v |-> None, edits |-> n]

\* `last`: the last public call, its outcome, and what it started from:
\* the variables' attributes (var0), the registered variables (vars0),
\* constraints (known0) and parameters (params0), and `since` (since0)
NoCall == [op |-> "edit", args |-> <<>>, err |-> "ok", var0 |-> InitModel.var,
           vars0 |-> {}, known0 |-> {}, params0 |-> {}, since0 |-> Dirty(0)]

InitWith(only_child_vars, configs) ==
    /\ model = InitModel
    /\ \E ocv \in only_child_vars, config \in configs :
          solver = NewSolver(ocv, config)
    /\ backend = EmptyBackend
    /\ calls = <<>>
    /\ last = NoCall
    /\ since = Dirty(0)

\* a public method starts on the current state; failAt names the primitive
\* of this call that raises (0: none does)
Start(failAt) ==
    [m |-> model, s |-> solver, b |-> backend, calls |-> <<>>, err |-> "ok",
     failAt |-> failAt, all_fixed_vars |-> {}]

\* ... and what it leaves behind when it returns or raises
Finish(op, args, st, then) ==
    /\ model' = st.m
    /\ solver' = st.s
    /\ backend' = st.b
    /\ calls' = st.calls
    /\ last' = [op |-> op, args |-> args, err |-> st.err,
                var0 |-> model.var,
                vars0 |-> DOMAIN solver._referenced_variables,
                known0 |-> DOMAIN solver._vars_referenced_by_con,
                params0 |-> solver._params,
                since0 |-> since]
    /\ since' = then

\* an edit of the live model by the user
Edit(m, then) ==
    /\ model' = m
    /\ calls' = <<>>
    /\ last' = NoCall
    /\ since' = then
    /\ UNCHANGED <<solver, backend>>

----------------------------------------------------------------------------
(* The public methods, one action each.                                    *)

VarLists == {<<"x">>, <<"y">>}
ObjArgs == {"o2", None}
ConLists == {<<"c1">>, <<"c2">>, <<"c1", "c2">>}
SosLists == {<<s>> : s \in Sos}
ParamLists == {<<"p1">>}
FailAts == 0..MaxFailAt

AddVariables ==
    \E variables \in VarLists :
        Finish("add_variables", variables,
               add_variables(Start(0), variables), Dirty(0))

\* in only_child_vars mode the user registers the variables of the model
ChildVarLists == {<<"x", "y">>, <<"z">>, <<"x", "y", "z">>}

AddChildVariables ==
    \E variables \in ChildVarLists :
        Finish("add_variables", variables,
               add_variables(Start(0), variables), Dirty(0))

RemoveChildVariables ==
    \E variables \in ChildVarLists :
        Finish("remove_variables", variables,
               remove_variables(Start(0), variables), Dirty(0))

AddParams ==
    \E params \in ParamLists :
        Finish("add_params", params, add_params(Start(0), params), Dirty(0))

AddConstraints ==
    \E cons \in ConLists, f \in FailAts :
        Finish("add_constraints", cons, add_constraints(Start(f), cons),
               Dirty(0))

AddSosConstraints ==
    \E cons \in SosLists :
        Finish("add_sos_constraints", cons,
               add_sos_constraints(Start(0), cons), Dirty(0))

SetObjective ==
    \E obj \in ObjArgs, f \in FailAts :
        Finish("set_objective", <<obj>>, set_objective(Start(f), obj),
               Dirty(0))

RemoveConstraints ==
    \E cons \in ConLists :
        Finish("remove_constraints", cons,
               remove_constraints(Start(0), cons), Dirty(0))

RemoveSosConstraints ==
    \E cons \in SosLists :
        Finish("remove_sos_constraints", cons,
               remove_sos_constraints(Start(0), cons), Dirty(0))

RemoveVariables ==
    \E variables \in VarLists :
        Finish("remove_variables", variables,
               remove_variables(Start(0), variables), Dirty(0))

RemoveParams ==
    \E params \in ParamLists :
        Finish("remove_params", params, remove_params(Start(0), params),
               Dirty(0))

\* collect_vars_and_named_exprs called on an expression; `last` keeps the
\* module-level _visitor as the call found it and as it left it
CollectExprs == Exprs

Collect ==
    \E expr \in CollectExprs :
        /\ last' = [op |-> "collect_vars_and_named_exprs", args |-> <<expr>>,
                    err |-> "ok", visitor0 |-> last.visitor,
                    visitor |-> walk(last.visitor, model, expr)]
        /\ calls' = <<>>
        /\ UNCHANGED <<model, solver, backend, since>>

\* the user fixes or unfixes a variable, or redefines n1, between two calls
Refix ==
    \E v \in Vars :
        /\ model' = [model EXCEPT !.var[v].fixed = ~@]
        /\ UNCHANGED <<solver, backend, calls, last, since>>

Redefine ==
    \E e \in InnerExprs :
        /\ model.named["n1"] # e
        /\ model' = [model EXCEPT !.named["n1"] = e]
        /\ UNCHANGED <<solver, backend, calls, last, since>>

UpdateVariables ==
    \E variables \in VarLists :
        Finish("update_variables", variables,
               update_variables(Start(0), variables), Dirty(0))

RemoveBlock == Finish("remove_block", <<>>, remove_block(Start(0)), Dirty(0))

AddBlock == Finish("add_block", <<>>, add_block(Start(0)), Dirty(0))

\* the mirror `backend` counts the primitives since the model was loaded
SetInstance ==
    Finish("set_instance", <<>>,
           set_instance([Start(0) EXCEPT !.b = EmptyBackend]), Dirty(0))

\* a pass that returned leaves nothing changed since
AfterPass(st) == IF st.err = "ok" THEN Clean ELSE Dirty(0)

UpdateWith(st) == Finish("update", <<>>, st, AfterPass(st))

Update == UpdateWith(update(Start(0)))

----------------------------------------------------------------------------
(* The user's edits of the live model between calls.                       *)

\* edits are counted once a model is loaded
Edited ==
    Dirty(IF solver._model # None /\ since.edits < MaxEdits
          THEN since.edits + 1 ELSE since.edits)

FixVar ==
    /\ ~model.var["x"].fixed
    /\ Edit(SetFixed(model, <<"x">>, TRUE), Edited)

UnfixVar ==
    /\ model.var["x"].fixed
    /\ Edit(SetFixed(model, <<"x">>, FALSE), Edited)

SetUpperBound ==
    \E ub \in 1..MaxUb :
        /\ model.var["y"].ub # ub
        /\ Edit([model EXCEPT !.var["y"].ub = ub],
                IF since = Clean /\ MaxEdits > 0
                THEN [kind |-> "ub", v |-> "y", edits |-> 1]
                ELSE Edited)

\* the user replaces a bound of c2 by another bound object
SetBound ==
    \/ \E b \in {0, 1, 2} :
          /\ model.con["c2"].lower # b
          /\ Edit([model EXCEPT !.con["c2"].lower = b], Edited)
    \/ \E b \in {1, 2, 3, 4} :
          /\ model.con["c2"].upper # b
          /\ Edit([model EXCEPT !.con["c2"].upper = b], Edited)

\* the user replaces a bound of x, its value or its domain
SetXBound ==
    \/ \E b \in 0..1 :
          /\ model.var["x"].lb # b
          /\ Edit([model EXCEPT !.var["x"].lb = b], Edited)
    \/ \E b \in 0..1 :
          /\ model.var["x"].ub # b
          /\ Edit([model EXCEPT !.var["x"].ub = b], Edited)

SetXValue ==
    \E val \in 0..1 :
        /\ model.var["x"].value # val
        /\ Edit([model EXCEPT !.var["x"].value = val], Edited)

SetXDomain ==
    \E dom \in 0..1 :
        /\ model.var["x"].domain # dom
        /\ Edit([model EXCEPT !.var["x"].domain = dom], Edited)

SetBody ==
    \E e \in {"e1", "e2", "e4"} :
        /\ model.con["c1"].body # e
        /\ Edit([model EXCEPT !.con["c1"].body = e], Edited)

ToggleConstraint ==
    \E c \in Cons : Edit([model EXCEPT !.con[c].active = ~@], Edited)

ToggleSos ==
    \E c \in Sos : Edit([model EXCEPT !.sos[c].active = ~@], Edited)

ToggleObjective ==
    \E o \in Objs : Edit([model EXCEPT !.obj[o].active = ~@], Edited)

\* the user replaces the expression of o1 (e4: z, e6: z + n1) or its sense
SetObjExpr ==
    \E e \in {"e4", "e6"} :
        /\ model.obj["o1"].expr # e
        /\ Edit([model EXCEPT !.obj["o1"].expr = e], Edited)

SetSense ==
    \E sense \in Senses :
        /\ model.obj["o1"].sense # sense
        /\ Edit([model EXCEPT !.obj["o1"].sense = sense], Edited)

SetNamedExpr ==
    \E e \in InnerExprs :
        /\ model.named["n1"] # e
        /\ Edit([model EXCEPT !.named["n1"] = e], Edited)

ToggleParam ==
    Edit([model EXCEPT !.params = IF "p1" \in @ THEN @ \ {"p1"}
                                  ELSE @ \cup {"p1"}],
         Edited)

----------------------------------------------------------------------------
(* Spec: the add / remove methods called directly on a solver object       *)
(* constructed with the default only_child_vars=False, with fixed          *)
(* variables treated as parameters or not; the primitives issued by        *)
(* add_constraints and set_objective may raise.                            *)

Init == InitWith({FALSE}, {AllChecks, ConfigOptions})

Next ==
    \/ AddVariables
    \/ AddParams
    \/ AddConstraints
    \/ AddSosConstraints
    \/ SetObjective
    \/ RemoveConstraints
    \/ RemoveSosConstraints
    \/ RemoveVariables
    \/ RemoveParams
    \/ FixVar
    \/ UnfixVar

Spec == Init /\ [][Next]_vars

(* SpecSync: a model is loaded with set_instance and then kept in step by  *)
(* update() passes while the user edits it, at most MaxEdits edits between *)
(* two calls; the primitives take effect.                                  *)

InitSync == InitWith({FALSE}, {AllChecks, ConfigOptions})

MayEdit == since.edits < MaxEdits

NextSync ==
    \/ SetInstance
    \/ Update
    \/ (MayEdit /\ FixVar)
    \/ (MayEdit /\ UnfixVar)
    \/ (MayEdit /\ SetBody)
    \/ (MayEdit /\ ToggleConstraint)
    \/ (MayEdit /\ ToggleSos)
    \/ (MayEdit /\ ToggleObjective)
    \/ (MayEdit /\ SetNamedExpr)
    \/ (MayEdit /\ ToggleParam)

SpecSync == InitSync /\ [][NextSync]_vars

(* SpecBounds: the same, the edits being those of a variable's upper bound *)
(* and fixed flag and of which constraints are active.                     *)

NextBounds ==
    \/ SetInstance
    \/ Update
    \/ (MayEdit /\ SetUpperBound)
    \/ (MayEdit /\ FixVar)
    \/ (MayEdit /\ UnfixVar)
    \/ (MayEdit /\ ToggleConstraint)
    \/ (MayEdit /\ ToggleSos)

SpecBounds == InitSync /\ [][NextBounds]_vars

(* SpecSwap: set_objective called directly with any objective of a model   *)
(* whose two objectives share the variable x (o1 over x and y, o2 over     *)
(* x), between additions and removals of the constraints.                  *)

SwapModel == [InitModel EXCEPT !.obj["o1"].expr = "e1"]

InitSwap ==
    /\ model = SwapModel
    /\ \E config \in {AllChecks, ConfigOptions} :
          solver = NewSolver(FALSE, config)
    /\ backend = EmptyBackend
    /\ calls = <<>>
    /\ last = NoCall
    /\ since = Dirty(0)

SwapObjective ==
    \E obj \in Objs \cup {None} :
        Finish("set_objective", <<obj>>, set_objective(Start(0), obj),
               Dirty(0))

NextSwap ==
    \/ SwapObjective
    \/ AddConstraints
    \/ AddSosConstraints
    \/ RemoveConstraints
    \/ RemoveSosConstraints
    \/ FixVar
    \/ UnfixVar

SpecSwap == InitSwap /\ [][NextSwap]_vars

(* SpecCons: set_instance and update() passes while the user replaces the  *)
(* body of c1, a bound of c2 or the inner expression of the named          *)
(* expression n1, (de)activates a constraint, or fixes / unfixes x.        *)

NextCons ==
    \/ SetInstance
    \/ Update
    \/ (MayEdit /\ SetBody)
    \/ (MayEdit /\ SetBound)
    \/ (MayEdit /\ SetNamedExpr)
    \/ (MayEdit /\ ToggleConstraint)
    \/ (MayEdit /\ FixVar)
    \/ (MayEdit /\ UnfixVar)

SpecCons == InitSync /\ [][NextCons]_vars

(* SpecCoupling: set_instance and update() passes while the user changes   *)
(* the attributes of x (fixed flag, value, bounds, domain), any number of  *)
(* them between two passes, and (de)activates the objectives.              *)

NextCoupling ==
    \/ SetInstance
    \/ Update
    \/ FixVar
    \/ UnfixVar
    \/ SetXBound
    \/ SetXValue
    \/ SetXDomain
    \/ ToggleObjective

SpecCoupling == InitSync /\ [][NextCoupling]_vars

(* SpecGates: set_instance and update() passes under update configurations *)
(* with one check disabled, the user replacing the configuration and       *)
(* (de)activating constraints, SOS constraints and the parameter between   *)
(* passes; the object is constructed with only_child_vars False or True.   *)

GateConfigs ==
    {ConfigOptions,
     ConfigOptions \ {"check_for_new_or_removed_constraints"},
     ConfigOptions \ {"check_for_new_or_removed_constraints",
                      "update_constraints"},
     ConfigOptions \ {"check_for_new_or_removed_vars"},
     ConfigOptions \ {"update_params"}}

\* the update_config setter
SetUpdateConfig ==
    \E config \in GateConfigs :
        /\ config # solver._update_config
        /\ solver' = [solver EXCEPT !._update_config = config]
        /\ calls' = <<>>
        /\ last' = NoCall
        /\ UNCHANGED <<model, backend, since>>

InitGates == InitWith({FALSE, TRUE}, GateConfigs)

NextGates ==
    \/ SetInstance
    \/ Update
    \/ SetUpdateConfig
    \/ (MayEdit /\ ToggleConstraint)
    \/ (MayEdit /\ ToggleSos)
    \/ (MayEdit /\ ToggleParam)

SpecGates == InitGates /\ [][NextGates]_vars

(* SpecPhases: set_instance and update() passes with every check enabled   *)
(* while the user (de)activates constraints, SOS constraints, objectives   *)
(* and the parameter, any number of them between two passes.               *)

NextPhases ==
    \/ SetInstance
    \/ Update
    \/ ToggleConstraint
    \/ ToggleSos
    \/ ToggleParam
    \/ ToggleObjective

SpecPhases == InitSync /\ [][NextPhases]_vars

(* SpecVars: the variable methods called directly, on registered and on    *)
(* unregistered variables, between additions of constraints and the        *)
(* user's changes of the bounds and the fixed flag of x.                   *)

NextVars ==
    \/ AddVariables
    \/ RemoveVariables
    \/ UpdateVariables
    \/ AddConstraints
    \/ FixVar
    \/ UnfixVar
    \/ SetXBound

SpecVars == Init /\ [][NextVars]_vars

(* SpecObjectives: add_block, set_instance and update() passes, with       *)
(* check_for_new_objective enabled or not, while the user (de)activates    *)
(* the objectives and the constraints: the model has none, one or two      *)
(* active objectives.                                                      *)

ObjectiveConfigs ==
    {AllChecks, ConfigOptions, ConfigOptions \ {"check_for_new_objective"}}

InitObjectives == InitWith({FALSE}, ObjectiveConfigs)

NextObjectives ==
    \/ AddBlock
    \/ SetInstance
    \/ Update
    \/ ToggleObjective
    \/ ToggleConstraint

SpecObjectives == InitObjectives /\ [][NextObjectives]_vars

(* SpecNamed: set_instance and update() passes, with                       *)
(* update_named_expressions enabled or not, over a model whose constraints *)
(* c1 (body e6: z + n1) and c2 (body e3: y + n1) share the named           *)
(* expression n1, while the user redefines n1, replaces the body of c1,    *)
(* (de)activates a constraint or fixes / unfixes x.                        *)

NamedModel == [InitModel EXCEPT !.con["c1"].body = "e6"]

NamedConfigs ==
    {AllChecks, ConfigOptions, AllChecks \ {"update_named_expressions"}}

InitNamed ==
    /\ model = NamedModel
    /\ \E config \in NamedConfigs : solver = NewSolver(FALSE, config)
    /\ backend = EmptyBackend
    /\ calls = <<>>
    /\ last = NoCall
    /\ since = Dirty(0)

NextNamed ==
    \/ SetInstance
    \/ Update
    \/ SetNamedExpr
    \/ SetBody
    \/ ToggleConstraint
    \/ FixVar
    \/ UnfixVar

SpecNamed == InitNamed /\ [][NextNamed]_vars

(* SpecReconcile: set_instance and update() passes with every check        *)
(* enabled while the user (de)activates the objectives, replaces the       *)
(* expression or the sense of o1, redefines n1, unfixes x or replaces a    *)
(* bound of x, any number of them between two passes.                      *)

NextReconcile ==
    \/ SetInstance
    \/ Update
    \/ ToggleObjective
    \/ SetObjExpr
    \/ SetSense
    \/ SetNamedExpr
    \/ UnfixVar
    \/ SetXBound

SpecReconcile == InitSync /\ [][NextReconcile]_vars

(* SpecWalker: collect_vars_and_named_exprs called on one expression       *)
(* after another, the variables' fixed flags and the definition of n1      *)
(* changing in between.                                                    *)

InitWalker ==
    /\ model = InitModel
    /\ solver = NewSolver(FALSE, AllChecks)
    /\ backend = EmptyBackend
    /\ calls = <<>>
    /\ last = [op |-> "import", args |-> <<>>, err |-> "ok",
               visitor0 |-> NewVisitor, visitor |-> NewVisitor]
    /\ since = Dirty(0)

NextWalker == Collect \/ Refix \/ Redefine

SpecWalker == InitWalker /\ [][NextWalker]_vars

(* SpecTracker: the add / remove methods, set_objective, set_instance and  *)
(* update() called in any order, in both only_child_vars modes, every      *)
(* call returning without error (a call that raises is not taken), while   *)
(* the user redefines n1 or (de)activates a constraint in between.         *)

InitTracker == InitWith({FALSE, TRUE}, {AllChecks, ConfigOptions})

Returned == last'.err = "ok"

NextTracker ==
    \/ (AddVariables /\ Returned)
    \/ (AddConstraints /\ Returned)
    \/ (AddSosConstraints /\ Returned)
    \/ (SwapObjective /\ Returned)
    \/ (RemoveConstraints /\ Returned)
    \/ (RemoveSosConstraints /\ Returned)
    \/ (RemoveVariables /\ Returned)
    \/ (SetInstance /\ Returned)
    \/ (Update /\ Returned)
    \/ SetNamedExpr
    \/ ToggleConstraint

SpecTracker == InitTracker /\ [][NextTracker]_vars

(* SpecBlocks: add_block and remove_block called directly, in both          *)
(* only_child_vars modes, on a block whose parameters are any of p1         *)
(* (mutable) and p2 (not mutable) and whose objective o1 starts inactive,   *)
(* while the user registers variables and toggles components between calls. *)

BlockModels ==
    {[InitModel EXCEPT !.params = ps, !.obj["o1"].active = FALSE] :
       ps \in SUBSET Params}

InitBlocks ==
    /\ model \in BlockModels
    /\ \E ocv \in {FALSE, TRUE} : solver = NewSolver(ocv, AllChecks)
    /\ backend = EmptyBackend
    /\ calls = <<>>
    /\ last = NoCall
    /\ since = Dirty(0)

NextBlocks ==
    \/ AddBlock
    \/ RemoveBlock
    \/ AddVariables
    \/ ToggleConstraint
    \/ ToggleSos
    \/ ToggleObjective

SpecBlocks == InitBlocks /\ [][NextBlocks]_vars

(* SpecChild: the add / remove methods called directly on a solver built   *)
(* with only_child_vars=True; the calls may raise.                          *)

InitChild == InitWith({TRUE}, {AllChecks})

NextChild ==
    \/ AddChildVariables
    \/ RemoveChildVariables
    \/ AddConstraints
    \/ AddSosConstraints
    \/ SetObjective
    \/ RemoveConstraints
    \/ RemoveSosConstraints

SpecChild == InitChild /\ [][NextChild]_vars

----------------------------------------------------------------------------
(* _GDPoptAlgorithm (pyomo/contrib/gdpopt/algorithm_base_class.py).  In     *)
(* SpecGDPopt `solver` is the algorithm object, `model` the model last      *)
(* passed to solve() (the sense of its active objective: 1 or -1) and       *)
(* `last` the last call; the other variables stay as they start.            *)

MaxBound == 2

\* floats: a number, float('inf'), -float('inf'); NoValue is Python's None
Num(i) == [kind |-> "num", val |-> i]
PosInf == [kind |-> "inf", val |-> 1]
NegInf == [kind |-> "inf", val |-> -1]
NoValue == [kind |-> "None", val |-> 0]
BoundValues == {Num(i) : i \in 0..MaxBound} \cup {PosInf, NegInf}

\* line 8: from pyomo.core.base import minimize, the sense an Objective
\* carries (line 242 compares it with 1)
minimize == "minimize"

\* line 7: from pyomo.opt import ProblemSense, the members line 242-243
\* converts an objective's sense to
ProblemSense ==
    [minimize |-> "ProblemSense.minimize",
     maximize |-> "ProblemSense.maximize"]

\* lines 242-243
problem_sense(sense) ==
    IF sense = 1 THEN ProblemSense.minimize ELSE ProblemSense.maximize

\* the attribute obj_sense does not exist before solve() sets it
Unset == "unset"

\* _GDPoptAlgorithm.__init__
NewAlgorithm ==
    [LB |-> NegInf,
     UB |-> PosInf,
     master_iteration |-> 0,
     mip_iteration |-> 0,
     nlp_iteration |-> 0,
     incumbent |-> NoValue,
     primal_bound_improved |-> FALSE,
     obj_sense |-> Unset]

set_UB(a, bound) == IF bound # NoValue THEN [a EXCEPT !.UB = bound] ELSE a
set_LB(a, bound) == IF bound # NoValue THEN [a EXCEPT !.LB = bound] ELSE a

\* lines 108-117: if self.obj_sense is minimize: ... else: ...
_update_bounds(a, primal, dual) ==
    IF a.obj_sense = minimize
    THEN set_LB(set_UB(a, primal), dual)
    ELSE set_UB(set_LB(a, primal), dual)

GdpCall(op, args, err, a) ==
    /\ solver' = a
    /\ last' = [op |-> op, args |-> args, err |-> err]
    /\ UNCHANGED <<backend, calls, since>>

\* solve(model, config): line 91 keeps the problem's sense in obj_sense
GdpSolve ==
    \E sense \in {1, -1} :
        /\ model' = [sense |-> sense]
        /\ GdpCall("solve", <<sense>>, "ok",
                   [solver EXCEPT !.obj_sense = problem_sense(sense)])

\* _update_bounds(primal, dual); AttributeError before the first solve()
UpdateBounds ==
    \E primal \in BoundValues \cup {NoValue},
       dual \in BoundValues \cup {NoValue} :
        /\ UNCHANGED model
        /\ IF solver.obj_sense = Unset
           THEN GdpCall("_update_bounds", <<primal, dual>>, "AttributeError",
                        solver)
           ELSE GdpCall("_update_bounds", <<primal, dual>>, "ok",
                        _update_bounds(solver, primal, dual))

\* _update_after_master_problem_solve(mip_feasible, obj_expr, logger): a
\* feasible master problem gives the dual bound (line 122); the infeasible
\* branch reads self.objective_sense, which nothing sets (line 139)
UpdateAfterMasterProblemSolve ==
    \E mip_feasible \in BOOLEAN, obj \in {Num(i) : i \in 0..MaxBound} :
        /\ UNCHANGED model
        /\ IF ~mip_feasible \/ solver.obj_sense = Unset
           THEN GdpCall("_update_after_master_problem_solve",
                        <<mip_feasible, obj>>, "AttributeError", solver)
           ELSE GdpCall("_update_after_master_problem_solve",
                        <<mip_feasible, obj>>, "ok",
                        _update_bounds(solver, NoValue, obj))

InitGDPopt ==
    /\ model = [sense |-> 0]
    /\ solver = NewAlgorithm
    /\ backend = EmptyBackend
    /\ calls = <<>>
    /\ last = [op |-> "__init__", args |-> <<>>, err |-> "ok"]
    /\ since = Dirty(0)

NextGDPopt ==
    \/ GdpSolve
    \/ UpdateBounds
    \/ UpdateAfterMasterProblemSolve

SpecGDPopt == InitGDPopt /\ [][NextGDPopt]_vars

----------------------------------------------------------------------------
(* Properties of the direct calls, checked under Spec.                     *)

\* the primitives of the last call, as (name, list) pairs
CallOps == [i \in 1..Len(calls) |-> <<calls[i].op, calls[i].args>>]

TreatFixedAsParams == "treat_fixed_vars_as_params" \in solver._update_config

\* C3: remove_variables([v]) on a registered variable v returns without
\* error and destroys v's snapshot record and reference entry if and only
\* if v has no constraint, SOS or objective reference when it is called;
\* otherwise it raises and both records remain.
C3_RemoveVariableIffUnreferenced ==
    (last.op = "remove_variables" /\ last.args[1] \in last.vars0) =>
        LET v == last.args[1]
            used == v \in calls[1].referenced
            gone == /\ v \notin DOMAIN solver._vars
                    /\ v \notin DOMAIN solver._referenced_variables
            kept == /\ v \in DOMAIN solver._vars
                    /\ v \in DOMAIN solver._referenced_variables
        IN /\ ~used => (last.err = "ok" /\ gone)
           /\ used => (last.err # "ok" /\ kept)

C3_Witness ==
    /\ last.op = "remove_variables"
    /\ last.args = <<"y">>
    /\ "y" \in last.vars0
    /\ last.err = "ok"
    /\ "y" \notin DOMAIN solver._vars
    /\ "x" \in DOMAIN solver._vars

\* C4: the backend remove_variables primitive is never invoked with a
\* variable that has an outstanding constraint, SOS or objective reference
\* at the moment of the invocation.
C4_NeverRemovedWhileReferenced ==
    \A i \in 1..Len(calls) :
        calls[i].op = "remove_variables" =>
            Range(calls[i].args) \cap calls[i].referenced = {}

\* C5: add_constraints on a batch holding a constraint that is registered,
\* and add_sos_constraints on a batch holding an SOS constraint that is
\* registered, raise an error, and the backend add_constraints /
\* add_sos_constraints primitive is not invoked for that batch.
C5_DuplicateAddRaises ==
    \A op \in {"add_constraints", "add_sos_constraints"} :
        (last.op = op /\ Range(last.args) \cap last.known0 # {}) =>
            /\ last.err # "ok"
            /\ \A i \in 1..Len(calls) : calls[i].op # op

C5_Witness ==
    /\ last.op = "add_constraints"
    /\ last.args = <<"c1", "c2">>
    /\ "c2" \in last.known0
    /\ "c1" \notin last.known0
    /\ last.err = "ValueError"

\* C6: add_params on a parameter that is registered raises an error, and
\* the backend add_params primitive is not invoked for it again.
C6_DuplicateParamRaises ==
    (last.op = "add_params" /\ Range(last.args) \cap last.params0 # {}) =>
        /\ last.err # "ok"
        /\ \A i \in 1..Len(calls) : calls[i].op # "add_params"

\* C7: when add_constraints or set_objective returns without error, every
\* variable has the fixed flag and the value (and bounds and domain) it had
\* immediately before the call, whatever treat_fixed_vars_as_params is.
C7_FixedRoundTripOnSuccess ==
    (last.op \in {"add_constraints", "set_objective"} /\ last.err = "ok") =>
        model.var = last.var0

C7_Witness ==
    /\ last.op = "add_constraints"
    /\ last.args = <<"c1", "c2">>
    /\ last.err = "ok"
    /\ ~TreatFixedAsParams
    /\ last.var0["x"].fixed
    /\ \E i \in 1..Len(calls) :
          calls[i].op = "add_constraints" /\ "x" \notin calls[i].fixed
    /\ model.var["x"].fixed

\* C8: with treat_fixed_vars_as_params disabled, when add_constraints or
\* set_objective ends in an error, every variable that was fixed before the
\* call is fixed, with its value, when the error reaches the caller.
C8_RefixedOnFailure ==
    (/\ last.op \in {"add_constraints", "set_objective"}
     /\ last.err # "ok"
     /\ ~TreatFixedAsParams) =>
        \A v \in Vars : last.var0[v].fixed => model.var[v] = last.var0[v]

\* C9: the two calls of the scenario: add_constraints([c1]) on an empty
\* registry with x fixed, then add_sos_constraints([s1]).
C9_First ==
    /\ last.op = "add_constraints"
    /\ last.args = <<"c1">>
    /\ last.err = "ok"
    /\ last.vars0 = {}
    /\ last.known0 = {}
    /\ solver._objective = None
    /\ last.var0["x"].fixed

C9_Second ==
    /\ last.op = "add_sos_constraints"
    /\ last.args = <<"s1">>
    /\ last.err = "ok"

\* C9 as stated: the backend receives exactly add_variables([x,y,z]), then
\* add_constraints([c1]), then add_sos_constraints([s1]), and x is fixed at
\* every point of the sequence.
C9_AsStated ==
    [][(C9_First /\ C9_Second') =>
          /\ CallOps \o CallOps' =
                <<<<"add_variables", <<"x", "y", "z">>>>,
                  <<"add_constraints", <<"c1">>>>,
                  <<"add_sos_constraints", <<"s1">>>>>>
          /\ \A i \in 1..Len(calls) : "x" \in calls[i].fixed
          /\ \A i \in 1..Len(calls') : "x" \in calls'[i].fixed
          /\ model.var["x"].fixed
          /\ model'.var["x"].fixed]_vars

\* C9 (amended): the backend receives add_variables([x,y]), then
\* add_constraints([c1]), then add_variables([z]), then
\* add_sos_constraints([s1]); x is fixed when each call returns, and at
\* every primitive if treat_fixed_vars_as_params is enabled; if it is
\* disabled x is unfixed at the moment of the add_constraints primitive.
C9_AddScenario ==
    [][(C9_First /\ C9_Second') =>
          /\ CallOps \o CallOps' =
                <<<<"add_variables", <<"x", "y">>>>,
                  <<"add_constraints", <<"c1">>>>,
                  <<"add_variables", <<"z">>>>,
                  <<"add_sos_constraints", <<"s1">>>>>>
          /\ model.var["x"].fixed
          /\ model'.var["x"].fixed
          /\ \A i \in 1..Len(calls') : "x" \in calls'[i].fixed
          /\ "x" \in calls[1].fixed
          /\ ("x" \in calls[2].fixed) = TreatFixedAsParams]_vars

C9_Witness ==
    /\ C9_Second
    /\ last.known0 = {"c1"}
    /\ last.vars0 = {"x", "y"}
    /\ CallOps = <<<<"add_variables", <<"z">>>>,
                   <<"add_sos_constraints", <<"s1">>>>>>
    /\ model.var["x"].fixed
    /\ solver._vars_referenced_by_con["s1"] = <<"y", "z">>

----------------------------------------------------------------------------
(* Properties of the update() passes, checked under SpecSync.              *)

\* a primitive that carries an entity: a non-empty list, or an objective
CarriesEntity(call) == call.args # <<>>

\* the pass that just returned followed a pass that returned without error,
\* with no change of the model in between
SecondPass == last.op = "update" /\ last.since0 = Clean

\* C1 as stated: a second update() pass with nothing changed issues no
\* primitive that carries an entity, SOS constraints in the model or not.
C1_AsStated ==
    SecondPass => \A i \in 1..Len(calls) : ~CarriesEntity(calls[i])

\* C1 (amended): a second update() pass with nothing changed returns
\* without error, and the only primitives carrying an entity that it
\* issues are the removal and re-addition of the registered SOS
\* constraints and of the variables that only SOS constraints reference;
\* with no SOS constraint registered it issues none.
C1_Idempotence ==
    SecondPass =>
        /\ last.err = "ok"
        /\ \A i \in 1..Len(calls) :
              CarriesEntity(calls[i]) =>
                \/ /\ calls[i].op \in {"remove_sos_constraints",
                                       "add_sos_constraints"}
                   /\ Range(calls[i].args) \subseteq last.known0 \cap Sos
                \/ /\ calls[i].op \in {"remove_variables", "add_variables"}
                   /\ \A v \in Range(calls[i].args) :
                        /\ v \in DOMAIN solver._referenced_variables
                        /\ solver._referenced_variables[v].cons = {}
                        /\ solver._referenced_variables[v].obj = None
                        /\ solver._referenced_variables[v].sos # {}

C1_Witness ==
    /\ SecondPass
    /\ last.err = "ok"
    /\ last.known0 = {"c1", "c2", "s1"}
    /\ \E i \in 1..Len(calls) :
          calls[i].op = "add_sos_constraints" /\ calls[i].args = <<"s1">>

\* what the model holds now
ModelActiveCons == {c \in Cons : model.con[c].active}
ModelActiveSos == {c \in Sos : model.sos[c].active}
ModelActiveObjs == {o \in Objs : model.obj[o].active}
ModelReferencedVars ==
    UNION ({WalkVars(model, model.con[c].body) : c \in ModelActiveCons}
           \cup {Range(model.sos[c].vars) : c \in ModelActiveSos}
           \cup {WalkVars(model, model.obj[o].expr) : o \in ModelActiveObjs})

----------------------------------------------------------------------------
(* Properties of a pass after a change of one upper bound, checked under   *)
(* SpecBounds.                                                             *)

\* the pass that just returned followed a pass that returned without error,
\* and in between only the upper bound of the registered variable y changed
UbPass ==
    /\ last.op = "update"
    /\ last.since0.kind = "ub"
    /\ last.since0.v = "y"
    /\ "y" \in last.vars0

UpdateVariablesCalls == {i \in 1..Len(calls) : calls[i].op = "update_variables"}

\* C10 as stated: the pass issues exactly one update_variables primitive,
\* with the list [y], and removes or re-adds no constraint and no SOS
\* constraint.
C10_AsStated ==
    UbPass =>
        /\ Cardinality(UpdateVariablesCalls) = 1
        /\ \A i \in UpdateVariablesCalls : calls[i].args = <<"y">>
        /\ \A i \in 1..Len(calls) :
              calls[i].op \in {"remove_constraints", "add_constraints",
                               "remove_sos_constraints", "add_sos_constraints"}
                  => calls[i].args = <<>>

\* C10 (amended): the pass returns without error and issues exactly one
\* update_variables primitive; its list is [y], or empty when only SOS
\* constraints reference y (y is then removed and added again with them);
\* no constraint is removed or re-added, and every registered SOS
\* constraint is removed and added again.
C10_UpperBoundScenario ==
    UbPass =>
        LET sos_only == /\ solver._referenced_variables["y"].cons = {}
                        /\ solver._referenced_variables["y"].obj = None
            registered_sos == ListOf(last.known0 \cap Sos, SosOrder)
        IN /\ last.err = "ok"
           /\ Cardinality(UpdateVariablesCalls) = 1
           /\ \A i \in UpdateVariablesCalls :
                 calls[i].args = IF sos_only THEN <<>> ELSE <<"y">>
           /\ \A i \in 1..Len(calls) :
                 /\ calls[i].op \in {"remove_constraints", "add_constraints"}
                       => calls[i].args = <<>>
                 /\ (calls[i].op \in {"remove_sos_constraints",
                                      "add_sos_constraints"}
                       /\ calls[i].args # <<>>)
                       => calls[i].args = registered_sos
           /\ registered_sos # <<>> =>
                 \E i, j \in 1..Len(calls) :
                    /\ i < j
                    /\ calls[i].op = "remove_sos_constraints"
                    /\ calls[i].args = registered_sos
                    /\ calls[j].op = "add_sos_constraints"
                    /\ calls[j].args = registered_sos

C10_Witness ==
    /\ UbPass
    /\ last.err = "ok"
    /\ last.known0 = {"c1", "c2", "s1"}
    /\ solver._vars["y"].ub = model.var["y"].ub
    /\ \E i \in UpdateVariablesCalls : calls[i].args = <<"y">>
    /\ \E i \in 1..Len(calls) :
          calls[i].op = "add_sos_constraints" /\ calls[i].args = <<"s1">>

----------------------------------------------------------------------------
(* Properties of an objective swap, checked under SpecSwap.                *)

\* the step is a set_objective(new) on a solver object with an objective
\* installed, and v is a variable of both
SwapSharing(v) ==
    /\ last'.op = "set_objective"
    /\ last'.args[1] # None
    /\ solver._objective # None
    /\ v \in Range(solver._vars_referenced_by_obj)
    /\ v \in WalkVars(model, model.obj[last'.args[1]].expr)

\* the primitives of the step that carry v
CarryingAfter(v, ops) ==
    {i \in 1..Len(calls') : calls'[i].op \in ops /\ v \in Range(calls'[i].args)}

----------------------------------------------------------------------------
(* Properties of the constraint diff of update(), checked under SpecCons.  *)
(* In a step of update() the unprimed variables are the state the pass     *)
(* starts from, the primed ones the state it leaves.                       *)

\* the step is an update() pass with update_constraints enabled, and c is a
\* registered constraint that is still active in the model
DiffPass(c) ==
    /\ last'.op = "update"
    /\ "update_constraints" \in solver._update_config
    /\ c \in DOMAIN solver._active_constraints
    /\ model.con[c].active

\* a bound equal to its snapshot: by identity, or both numeric constants of
\* the same value
SameBound(new, old) ==
    \/ new = old
    \/ /\ IsNumericConstant(new)
       /\ IsNumericConstant(old)
       /\ BoundValue(new) = BoundValue(old)

SameAsSnapshot(c) ==
    /\ model.con[c].body = solver._active_constraints[c].body
    /\ SameBound(model.con[c].lower, solver._active_constraints[c].lower)
    /\ SameBound(model.con[c].upper, solver._active_constraints[c].upper)

\* no captured named expression of c was redefined
NamedAsCaptured(c) ==
    \A pair \in solver._named_expressions[c] : model.named[pair[1]] = pair[2]

\* no variable of c changed its fixed flag, or its value while fixed, with
\* fixed variables treated as parameters
NoCoupling(c) ==
    \/ "treat_fixed_vars_as_params" \notin solver._update_config
    \/ \A v \in Range(solver._vars_referenced_by_con[c]) :
          /\ solver._vars[v].fixed = model.var[v].fixed
          /\ solver._vars[v].fixed => solver._vars[v].value = model.var[v].value

\* the primitives of the pass that carry the constraint c
Replacing(c, op) ==
    {i \in 1..Len(calls') : calls'[i].op = op /\ c \in Range(calls'[i].args)}

\* C12: a registered constraint whose body is the snapshot's and whose
\* bounds are each identical to the snapshot's or a numeric constant of the
\* same value is neither removed from nor re-added to the backend by the
\* pass (no named expression redefined, no fixed-variable coupling).
C12_BoundEquality ==
    [][\A c \in Cons :
          (DiffPass(c) /\ SameAsSnapshot(c) /\ NamedAsCaptured(c)
             /\ NoCoupling(c)) =>
              /\ Replacing(c, "remove_constraints") = {}
              /\ Replacing(c, "add_constraints") = {}]_vars

\* a pass left c2 in place although its upper bound is another object than
\* the snapshot's, a constant of the same value
C12_Witness ==
    /\ last.op = "update"
    /\ last.err = "ok"
    /\ "c2" \in last.known0
    /\ last.since0.edits = 1
    /\ model.con["c2"].upper = 2
    /\ solver._active_constraints["c2"].upper = 1
    /\ \A i \in 1..Len(calls) :
          calls[i].op \in {"remove_constraints", "add_constraints"}
              => calls[i].args = <<>>

\* what the records of c are when they are those of the live constraint
RecordsAreLive(c) ==
    /\ solver'._active_constraints[c] =
          [lower |-> model'.con[c].lower, body |-> model'.con[c].body,
           upper |-> model'.con[c].upper]
    /\ solver'._named_expressions[c] =
          {<<n, model'.named[n]>> : n \in WalkNamed(model', model'.con[c].body)}
    /\ Range(solver'._vars_referenced_by_con[c]) =
          WalkVars(model', model'.con[c].body)
    /\ \A v \in Vars :
          (v \in WalkVars(model', model'.con[c].body)) =
             (/\ v \in DOMAIN solver'._referenced_variables
              /\ c \in solver'._referenced_variables[v].cons)

\* C13: a registered constraint whose live body is another object than the
\* snapshot's, or one of whose bounds differs from the snapshot's without
\* being a numeric constant of the same value, is removed from the backend
\* and re-added in the pass, and afterwards its snapshot, its named
\* expressions and its variable links are those of the live constraint.
C13_BodyIdentity ==
    [][\A c \in Cons :
          (DiffPass(c) /\ ~SameAsSnapshot(c)) =>
              /\ last'.err = "ok"
              /\ Cardinality(Replacing(c, "remove_constraints")) = 1
              /\ Cardinality(Replacing(c, "add_constraints")) = 1
              /\ \A i \in Replacing(c, "remove_constraints"),
                    j \in Replacing(c, "add_constraints") : i < j
              /\ c \in backend'.cons
              /\ RecordsAreLive(c)]_vars

\* a pass replaced c1 whose body e1 had been replaced by e2, an object of
\* the same structure
C13_Witness ==
    /\ last.op = "update"
    /\ last.err = "ok"
    /\ "c1" \in last.known0
    /\ model.con["c1"].body = "e2"
    /\ solver._active_constraints["c1"].body = "e2"
    /\ \E i, j \in 1..Len(calls) :
          /\ i < j
          /\ calls[i].op = "remove_constraints"
          /\ calls[i].args = <<"c1">>
          /\ calls[j].op = "add_constraints"
          /\ calls[j].args = <<"c1">>

----------------------------------------------------------------------------
(* Properties of the variable diff of update(), checked under SpecCoupling.*)

\* the step is an update() pass that returns, with update_vars and
\* treat_fixed_vars_as_params enabled, and the registered variable v
\* changed its fixed flag, or its value while fixed, since its snapshot
FixedChanged(v) ==
    /\ last'.op = "update"
    /\ last'.err = "ok"
    /\ {"update_vars", "treat_fixed_vars_as_params"}
          \subseteq solver._update_config
    /\ v \in DOMAIN solver._vars
    /\ v \in DOMAIN solver._referenced_variables
    /\ \/ solver._vars[v].fixed # model.var[v].fixed
       \/ /\ solver._vars[v].fixed
          /\ solver._vars[v].value # model.var[v].value

\* C14: every constraint referencing such a variable is removed and
\* re-added in the pass, and the objective is set again if it references
\* the variable, whatever else of the variable changed at the same time.
C14_FixedVarCoupling ==
    [][\A v \in Vars :
          FixedChanged(v) =>
              /\ \A c \in solver._referenced_variables[v].cons :
                    /\ Replacing(c, "remove_constraints") # {}
                    /\ Replacing(c, "add_constraints") # {}
              /\ solver._referenced_variables[v].obj # None =>
                    \E i \in 1..Len(calls') : calls'[i].op = "set_objective"]_vars

----------------------------------------------------------------------------
(* Properties of the configuration options, checked under SpecGates.       *)

Disabled(option) == option \notin solver._update_config

\* the primitives of the pass named by one of ops
IssuedBy(ops) == {i \in 1..Len(calls') : calls'[i].op \in ops}

\* C15: each option gates its phase on its own.  With
\* check_for_new_or_removed_constraints disabled a pass adds no constraint
\* or SOS constraint that was not registered and removes none that is
\* still active in the model, whatever update_constraints; with
\* check_for_new_or_removed_vars disabled in only_child_vars mode it adds
\* and removes no variable, whatever update_vars; with update_params
\* disabled it does not call the parameter refresh hook.
C15_OptionsGate ==
    [][last'.op = "update" =>
          /\ Disabled("check_for_new_or_removed_constraints") =>
                /\ \A i \in IssuedBy({"add_constraints",
                                      "add_sos_constraints"}) :
                      Range(calls'[i].args)
                          \subseteq DOMAIN solver._vars_referenced_by_con
                /\ \A i \in IssuedBy({"remove_constraints"}) :
                      Range(calls'[i].args)
                          \subseteq Range(ActiveConstraints(model))
                /\ \A i \in IssuedBy({"remove_sos_constraints"}) :
                      Range(calls'[i].args)
                          \subseteq Range(ActiveSosConstraints(model))
          /\ (solver._only_child_vars
              /\ Disabled("check_for_new_or_removed_vars")) =>
                \A i \in IssuedBy({"add_variables", "remove_variables"}) :
                    calls'[i].args = <<>>
          /\ Disabled("update_params") => IssuedBy({"update_params"}) = {}]_vars

----------------------------------------------------------------------------
(* The order of the primitives of one pass, checked under SpecPhases.      *)

\* the positions of the primitives named op in the last call's log
Positions(op) == {i \in 1..Len(calls) : calls[i].op = op}

\* the position of the first of them (past the end when there is none)
First(op) ==
    IF Positions(op) = {} THEN Len(calls) + 1
    ELSE CHOOSE i \in Positions(op) : \A j \in Positions(op) : i <= j

AddOps == {"add_params", "add_variables", "add_constraints",
           "add_sos_constraints"}

\* what the pass started from: the registered entities the model no longer
\* has, and the model's entities that were not registered
StaleCons == (last.known0 \cap Cons) \ Range(ActiveConstraints(model))
StaleSos == (last.known0 \cap Sos) \ Range(ActiveSosConstraints(model))
StaleParams == last.params0 \ model.params
NewParams == (model.params \cap MutableParams) \ last.params0
NewCons == Range(ActiveConstraints(model)) \ last.known0
NewSos == Range(ActiveSosConstraints(model)) \ last.known0

PassReturned == last.op = "update" /\ last.err = "ok"

\* C16: the primitives of a pass that returned come in the phase order:
\* stale constraints, stale SOS constraints and stale parameters are
\* removed before any add; the parameter refresh hook runs between the
\* removal of stale parameters and the addition of new ones; new
\* parameters come before new variables, these before new constraints,
\* these before new SOS constraints; and the removal of the variables
\* absent from the model is the last primitive, after any set_objective.
C16_PhaseOrder ==
    PassReturned =>
        /\ calls[1].op = "remove_constraints"
        /\ calls[1].args = ListOf(StaleCons, ConOrder)
        /\ calls[First("remove_sos_constraints")].args
               = ListOf(StaleSos, SosOrder)
        /\ calls[First("remove_params")].args = ListOf(StaleParams, ParamOrder)
        /\ 1 < First("remove_sos_constraints")
        /\ First("remove_sos_constraints") < First("remove_params")
        /\ \A i \in 1..Len(calls) :
              calls[i].op \in AddOps => First("remove_params") < i
        /\ First("remove_params") < First("update_params")
        /\ First("update_params") < First("add_params")
        /\ calls[First("add_params")].args = ListOf(NewParams, ParamOrder)
        /\ First("add_params") < First("add_variables")
        /\ First("add_variables") < First("add_constraints")
        /\ calls[First("add_constraints")].args = ListOf(NewCons, ConOrder)
        /\ First("add_constraints") < First("add_sos_constraints")
        /\ calls[First("add_sos_constraints")].args = ListOf(NewSos, SosOrder)
        /\ calls[Len(calls)].op = "remove_variables"
        /\ \A i \in Positions("set_objective") : i < Len(calls)

\* a pass removed the stale c1, added the new s1 and set the objective
C16_Witness ==
    /\ PassReturned
    /\ StaleCons = {"c1"}
    /\ NewSos = {"s1"}
    /\ Positions("set_objective") # {}
    /\ backend.cons = {"c2"}
    /\ backend.sos = {"s1"}

----------------------------------------------------------------------------
(* Properties of update_variables, checked under SpecVars.                 *)

\* C17: update_variables on a variable without a snapshot record raises,
\* creates no record and calls no primitive; on a registered variable it
\* overwrites the snapshot with the live lower bound, upper bound, fixed
\* flag, domain interval and value and leaves the reference entries alone.
C17_UpdateVariables ==
    [][last'.op = "update_variables" =>
          \A v \in Range(last'.args) :
              /\ v \notin DOMAIN solver._vars =>
                    /\ last'.err # "ok"
                    /\ v \notin DOMAIN solver'._vars
                    /\ calls' = <<>>
              /\ v \in DOMAIN solver._vars =>
                    /\ last'.err = "ok"
                    /\ solver'._vars[v] = VarSnapshot(model', v)
                    /\ solver'._referenced_variables
                           = solver._referenced_variables]_vars

----------------------------------------------------------------------------
(* Registration of what an added entity mentions, checked under Spec.      *)

\* the parameters under an expression, named expressions included
WalkParams(m, expr) ==
    ExprParams(expr)
        \cup UNION {ExprParams(m.named[n]) : n \in WalkNamed(m, expr)}

\* the variables and the mutable parameters that appear in an entity
EntityVars(c) ==
    IF c \in Cons THEN WalkVars(model, model.con[c].body)
    ELSE IF c \in Sos THEN Range(model.sos[c].vars)
    ELSE WalkVars(model, model.obj[c].expr)

EntityParams(c) ==
    IF c \in Cons THEN WalkParams(model, model.con[c].body) \cap MutableParams
    ELSE IF c \in Sos THEN {}
    ELSE WalkParams(model, model.obj[c].expr) \cap MutableParams

AddsEntities(call) ==
    call.op \in {"add_constraints", "add_sos_constraints", "set_objective"}

\* C18: when _add_constraints, _add_sos_constraints or _set_objective with
\* an objective is called, every variable and every mutable parameter
\* that appears in the entities handed over has a registry record.
C18_AutoRegistration ==
    \A i \in 1..Len(calls) :
        AddsEntities(calls[i]) =>
            \A c \in Range(calls[i].args) \ {None} :
                /\ EntityVars(c) \subseteq calls[i].registered
                /\ EntityParams(c) \subseteq calls[i].params

----------------------------------------------------------------------------
(* Several active objectives, checked under SpecObjectives.                *)

ModelActiveObjectives == {o \in Objs : model.obj[o].active}

SeveralObjectives == Cardinality(ModelActiveObjectives) > 1

\* the call that returns reads the model's objective
ReadsObjective ==
    \/ last'.op \in {"add_block", "set_instance"}
    \/ /\ last'.op = "update"
       /\ solver._model # None
       /\ "check_for_new_objective" \in solver._update_config

\* C19: get_objective answers the model's only active objective, None when
\* there is none, and raises ValueError when there are several; add_block,
\* set_instance and update() of a loaded model with
\* check_for_new_objective then end in an
\* error, call _set_objective not once and leave the backend's objective
\* as it was (none, for set_instance).
C19_MultipleObjectives ==
    [][/\ ModelActiveObjectives = {} =>
              get_objective(model) = [err |-> "ok", obj |-> None]
       /\ \A o \in Objs :
              ModelActiveObjectives = {o} =>
                  get_objective(model) = [err |-> "ok", obj |-> o]
       /\ SeveralObjectives => get_objective(model).err = "ValueError"
       /\ (ReadsObjective /\ SeveralObjectives) =>
              /\ last'.err = "ValueError"
              /\ \A i \in 1..Len(calls') : calls'[i].op # "set_objective"
              /\ backend'.obj = IF last'.op = "set_instance" THEN None
                                ELSE backend.obj
              /\ solver'._objective = IF last'.op = "set_instance" THEN None
                                      ELSE solver._objective]_vars

\* a pass over a model with both objectives active raised and left o1, the
\* objective loaded before, on the backend
C19_Witness ==
    /\ last.op = "update"
    /\ last.err = "ValueError"
    /\ SeveralObjectives
    /\ calls # <<>>
    /\ backend.obj = "o1"
    /\ solver._objective = "o1"

----------------------------------------------------------------------------
(* Redefinition of a named expression, checked under SpecNamed.            *)

\* c is registered and active, its body and bounds are the snapshot's
\* objects, and a named expression it captured has another inner expression
NamedRedefined(c) ==
    /\ last'.op = "update"
    /\ "update_named_expressions" \in solver._update_config
    /\ c \in DOMAIN solver._active_constraints
    /\ model.con[c].active
    /\ model.con[c].body = solver._active_constraints[c].body
    /\ model.con[c].lower = solver._active_constraints[c].lower
    /\ model.con[c].upper = solver._active_constraints[c].upper
    /\ \E pair \in solver._named_expressions[c] :
          model.named[pair[1]] # pair[2]

\* C20: with update_named_expressions enabled, every registered constraint
\* whose body and bounds are unchanged and one of whose captured named
\* expressions was redefined is removed and re-added by the pass, each of
\* the constraints sharing the named expression, and afterwards the
\* captured inner expressions are the live ones.
C20_NamedRedefinition ==
    [][\A c \in Cons :
          NamedRedefined(c) =>
              /\ last'.err = "ok"
              /\ \E i \in Replacing(c, "remove_constraints") :
                    \E j \in Replacing(c, "add_constraints") : i < j
              /\ c \in backend'.cons
              /\ solver'._named_expressions[c] =
                    {<<n, model'.named[n]>> :
                        n \in WalkNamed(model', model'.con[c].body)}]_vars

\* a pass replaced both c1 and c2 after n1, which they share, was
\* redefined from e5 to e4
C20_Witness ==
    /\ last.op = "update"
    /\ last.err = "ok"
    /\ {"c1", "c2"} \subseteq last.known0
    /\ model.named["n1"] = "e4"
    /\ model.con["c1"].body = "e6"
    /\ \E i, j \in 1..Len(calls) :
          /\ i < j
          /\ calls[i].op = "remove_constraints"
          /\ calls[i].args = <<"c1", "c2">>
          /\ calls[j].op = "add_constraints"
          /\ calls[j].args = <<"c1", "c2">>
    /\ solver._named_expressions["c1"] = {<<"n1", "e4">>}
    /\ solver._named_expressions["c2"] = {<<"n1", "e4">>}

----------------------------------------------------------------------------
(* Reconciliation of the objective, checked under SpecReconcile.           *)

\* the model's active objective (None when it has none)
LiveObjective ==
    IF ModelActiveObjectives = {} THEN None
    ELSE CHOOSE o \in ModelActiveObjectives : TRUE

\* a variable of the recorded objective changed its fixed flag, or its
\* value while fixed, with fixed variables treated as parameters
ObjectiveCoupling ==
    /\ "treat_fixed_vars_as_params" \in solver._update_config
    /\ \E v \in Range(solver._vars_referenced_by_obj) \cap DOMAIN solver._vars :
          \/ solver._vars[v].fixed # model.var[v].fixed
          \/ solver._vars[v].fixed /\ solver._vars[v].value # model.var[v].value

ObjectiveTrigger ==
    \/ LiveObjective # solver._objective
    \/ /\ LiveObjective # None
       /\ \/ model.obj[LiveObjective].expr # solver._objective_expr
          \/ model.obj[LiveObjective].sense # solver._objective_sense
    \/ \E pair \in solver._obj_named_expressions :
          model.named[pair[1]] # pair[2]
    \/ ObjectiveCoupling

SetObjectiveCalls == {i \in 1..Len(calls') : calls'[i].op = "set_objective"}

\* a pass of a loaded model, with the three objective options enabled,
\* that returns
ReconcilingPass ==
    /\ last'.op = "update"
    /\ last'.err = "ok"
    /\ solver._model # None
    /\ {"check_for_new_objective", "update_objective",
        "update_named_expressions"} \subseteq solver._update_config

\* C21: such a pass calls set_objective exactly once when the live
\* objective is another object than the recorded one, or its expression or
\* its sense is, or a captured named expression of the objective was
\* redefined, or the fixed-variable coupling requires it, and not at all
\* otherwise; afterwards the recorded objective, expression and sense are
\* the live ones.
C21_ObjectiveReconciliation ==
    [][ReconcilingPass =>
          /\ ObjectiveTrigger => Cardinality(SetObjectiveCalls) = 1
          /\ ~ObjectiveTrigger => SetObjectiveCalls = {}
          /\ solver'._objective = LiveObjective
          /\ LiveObjective # None =>
                /\ solver'._objective_expr = model.obj[LiveObjective].expr
                /\ solver'._objective_sense = model.obj[LiveObjective].sense
          /\ LiveObjective = None =>
                /\ solver'._objective_expr = None
                /\ solver'._objective_sense = None]_vars

----------------------------------------------------------------------------
(* Variables released by a stale constraint, checked under SpecPhases.     *)

\* v is referenced by stale constraints only: by no constraint that stays,
\* no SOS constraint and not by the recorded objective
ReleasedByStale(v) ==
    /\ last'.op = "update"
    /\ last'.err = "ok"
    /\ v \in DOMAIN solver._referenced_variables
    /\ solver._referenced_variables[v].cons # {}
    /\ solver._referenced_variables[v].cons
           \subseteq Cons \ Range(ActiveConstraints(model))
    /\ solver._referenced_variables[v].sos = {}
    /\ solver._referenced_variables[v].obj = None

\* the primitives of the pass named op that carry v
Carrying(v, op) ==
    {i \in 1..Len(calls') : calls'[i].op = op /\ v \in Range(calls'[i].args)}

\* the pass installs an objective that mentions v
InstalledWith(v) ==
    /\ LiveObjective # None
    /\ v \in WalkVars(model, model.obj[LiveObjective].expr)
    /\ \E j \in 1..Len(calls') : calls'[j].op = "set_objective"

----------------------------------------------------------------------------
(* Variables without a reference, checked under SpecSync.                  *)

\* v is in the recorded variable list of a registered constraint or SOS
\* constraint, or of the installed objective
RecordedSomewhere(v) ==
    \/ \E c \in DOMAIN solver._vars_referenced_by_con :
          v \in Range(solver._vars_referenced_by_con[c])
    \/ /\ solver._objective # None
       /\ v \in Range(solver._vars_referenced_by_obj)

Loaded ==
    /\ last.op \in {"set_instance", "update"}
    /\ last.err = "ok"
    /\ ~solver._only_child_vars

\* C23: in the default mode, after set_instance and after every pass that
\* returns, every variable with a registry record is referenced by a
\* registered constraint, SOS constraint or the installed objective, and
\* a variable that lost its last reference is gone from the registry and
\* from the backend.
C23_NoUnreferencedVariables ==
    Loaded =>
        /\ \A v \in DOMAIN solver._vars \cup DOMAIN solver._referenced_variables :
              RecordedSomewhere(v)
        /\ \A v \in last.vars0 :
              ~RecordedSomewhere(v) =>
                  /\ v \notin DOMAIN solver._vars
                  /\ v \notin DOMAIN solver._referenced_variables
                  /\ v \notin backend.vars

\* a pass removed z, which had lost its last reference when s1 was
\* deactivated
C23_Witness ==
    /\ last.op = "update"
    /\ last.err = "ok"
    /\ "z" \in last.vars0
    /\ "s1" \in last.known0
    /\ ~model.sos["s1"].active
    /\ ~RecordedSomewhere("z")
    /\ "z" \notin DOMAIN solver._vars
    /\ "z" \notin backend.vars

----------------------------------------------------------------------------
(* The expression walker, checked under SpecWalker.                        *)

Collected == last.op = "collect_vars_and_named_exprs"

\* the step is a call of collect_vars_and_named_exprs
Collecting ==
    /\ last'.op = "collect_vars_and_named_exprs"
    /\ model' = model

NoDuplicates(q) == \A i, j \in 1..Len(q) : q[i] = q[j] => i = j

\* the variables of the walked expression that occur under a named
\* expression only
OnlyUnderNamed(expr) == WalkVars(model, expr) \ ExprLeaves(expr)

\* C24 as stated: the walker records a named expression and does not
\* descend into it: a variable that occurs only inside a named expression
\* is not in the variable list returned.
C24_AsStated ==
    [][Collecting =>
          OnlyUnderNamed(last'.args[1]) \cap Range(last'.visitor.variables)
              = {}]_vars

\* C24: the walker records each named expression it meets and descends
\* into its current inner expression: the variable list holds every
\* variable of the tree, those under a named expression included; the
\* fixed-variable list is a part of it, no list holds a node twice, and
\* the result is the one a fresh visitor gives, whatever the earlier call.
C24_WalkerDescends ==
    [][Collecting =>
          /\ Range(last'.visitor.variables) = WalkVars(model, last'.args[1])
          /\ Range(last'.visitor.named_expressions)
                 = WalkNamed(model, last'.args[1])
          /\ Range(last'.visitor.fixed_vars)
                 = Range(last'.visitor.variables) \cap FixedVars(model)
          /\ NoDuplicates(last'.visitor.variables)
          /\ NoDuplicates(last'.visitor.fixed_vars)
          /\ NoDuplicates(last'.visitor.named_expressions)
          /\ last'.visitor
                 = dfs_postorder_stack(NewVisitor, model, last'.args[1])]_vars

\* e7 = x * (y + n1) * x was walked after a walk of e4 that left z in the
\* visitor: x is listed once, and so is x's fixed entry, n1 is recorded
C24_Witness ==
    /\ Collected
    /\ last.args = <<"e7">>
    /\ last.visitor0.variables = <<"z">>
    /\ model.named["n1"] = "e5"
    /\ last.visitor.variables = <<"x", "y">>
    /\ last.visitor.fixed_vars = <<"x">>
    /\ last.visitor.named_expressions = <<"n1">>

----------------------------------------------------------------------------
(* The fixed flags around the primitives, checked under Spec.              *)

AddingCall ==
    last'.op \in {"add_constraints", "set_objective"}

\* the variables of the entities a primitive is handed
BatchVars(call) == UNION {EntityVars(c) : c \in Range(call.args) \ {None}}

\* C25: with treat_fixed_vars_as_params disabled, no variable of a
\* constraint of the batch is fixed when _add_constraints is called and no
\* variable of the objective is fixed when _set_objective is called; with
\* it enabled no fixed flag changes at any point of add_constraints or
\* set_objective.
C25_TransientUnfix ==
    [][AddingCall =>
          /\ ~TreatFixedAsParams =>
                \A i \in 1..Len(calls') :
                    calls'[i].op \in {"add_constraints", "set_objective"} =>
                        BatchVars(calls'[i]) \cap calls'[i].fixed = {}
          /\ TreatFixedAsParams =>
                /\ \A i \in 1..Len(calls') :
                      calls'[i].fixed = FixedVars(model)
                /\ FixedVars(model') = FixedVars(model)]_vars

\* add_constraints([c1, c2]) handed both to the backend with x, fixed
\* before and after the call, not fixed
C25_Witness ==
    /\ last.op = "add_constraints"
    /\ last.args = <<"c1", "c2">>
    /\ last.err = "ok"
    /\ ~TreatFixedAsParams
    /\ last.var0["x"].fixed
    /\ model.var["x"].fixed
    /\ \E i \in 1..Len(calls) :
          /\ calls[i].op = "add_constraints"
          /\ "x" \in WalkVars(model, model.con["c1"].body)
          /\ "x" \notin calls[i].fixed

----------------------------------------------------------------------------
(* Work done twice within a pass, checked under SpecNamed.                 *)

\* the primitives of the last call named op that carry the constraint c
Handed(c, op) ==
    {i \in 1..Len(calls) : calls[i].op = op /\ c \in Range(calls[i].args)}

\* C26: in one pass each regular constraint is handed to
\* _remove_constraints at most once and to _add_constraints at most once,
\* whether it is new, its body or a bound changed, a variable of it
\* changed its fixed flag or a named expression of it was redefined.
C26_NoRedundantWork ==
    last.op = "update" =>
        \A c \in Cons :
            /\ Cardinality(Handed(c, "remove_constraints")) <= 1
            /\ Cardinality(Handed(c, "add_constraints")) <= 1

----------------------------------------------------------------------------
(* The reference entries, checked under SpecTracker.                       *)

\* the registered constraints of a kind whose recorded variable list holds v
RecordedWith(v, kind) ==
    {c \in DOMAIN solver._vars_referenced_by_con \cap kind :
        v \in Range(solver._vars_referenced_by_con[c])}

\* C27: after calls that all returned, for every registered variable v the
\* constraint references of v are the registered constraints whose
\* recorded variable list holds v, its SOS references the registered SOS
\* constraints whose list holds v, and its objective reference is the
\* installed objective if v is in the objective's recorded list and empty
\* otherwise.
C27_TrackerConsistency ==
    \A v \in DOMAIN solver._referenced_variables :
        /\ solver._referenced_variables[v].cons = RecordedWith(v, Cons)
        /\ solver._referenced_variables[v].sos = RecordedWith(v, Sos)
        /\ solver._referenced_variables[v].obj =
              IF /\ solver._objective # None
                 /\ v \in Range(solver._vars_referenced_by_obj)
              THEN solver._objective
              ELSE None

\* remove_constraints([c1]) returned and left x referenced by c2 and by
\* the installed objective o2
C27_Witness ==
    /\ last.op = "remove_constraints"
    /\ last.args = <<"c1">>
    /\ last.err = "ok"
    /\ "x" \in DOMAIN solver._referenced_variables
    /\ solver._referenced_variables["x"].cons = {"c2"}
    /\ solver._objective = "o2"
    /\ solver._referenced_variables["x"].obj = "o2"

\* C28: after any sequence of calls that returned, the variable snapshot map
\* and the reference tracker have the same keys, and every variable in the
\* recorded list of a registered constraint, SOS constraint or objective is a
\* key of both.
RecordedVars ==
    UNION {Range(solver._vars_referenced_by_con[c]) :
             c \in DOMAIN solver._vars_referenced_by_con}
      \cup (IF solver._objective # None
            THEN Range(solver._vars_referenced_by_obj) ELSE {})

C28_RegistryConsistency ==
    /\ DOMAIN solver._vars = DOMAIN solver._referenced_variables
    /\ RecordedVars \subseteq DOMAIN solver._vars

C28_Witness ==
    /\ last.op = "remove_variables"
    /\ last.err = "ok"
    /\ RecordedVars # {}
    /\ DOMAIN solver._vars # {}
    /\ \E i \in 1..Len(last.args) : last.args[i] \notin DOMAIN solver._vars

\* C29: a set_instance call that returns leaves only records of the model it
\* loaded, leaves update_config and the only_child_vars mode as they were
\* before the call, and invokes the backend set_objective primitive exactly
\* once, with the model's active objective or with None.
FreshRecords(s, m) ==
    /\ DOMAIN s._vars_referenced_by_con
         = {c \in Cons : m.con[c].active} \cup {c \in Sos : m.sos[c].active}
    /\ DOMAIN s._active_constraints = DOMAIN s._vars_referenced_by_con
    /\ s._params = m.params \cap MutableParams
    /\ s._objective = get_objective(m).obj
    /\ DOMAIN s._vars = DOMAIN s._referenced_variables

ObjectiveCalls(cs) == SelectSeq(cs, LAMBDA c : c.op = "set_objective")

C29_SetInstanceFrame ==
    [][(last'.op = "set_instance" /\ last'.err = "ok") =>
         /\ FreshRecords(solver', model')
         /\ solver'._update_config = solver._update_config
         /\ solver'._only_child_vars = solver._only_child_vars
         /\ Len(ObjectiveCalls(calls')) = 1
         /\ ObjectiveCalls(calls')[1].args = <<get_objective(model').obj>>]_vars

\* C30: for a block without an active objective, a remove_block call that
\* directly follows an add_block call that returned (no edit in between)
\* returns as well, and the registered variables, their snapshots, the
\* registered constraints, their snapshots and the parameter records are
\* again those from before add_block, in both only_child_vars modes.
C30_BlockRoundTrip ==
    [][(/\ last.op = "add_block"
        /\ last.err = "ok"
        /\ last'.op = "remove_block"
        /\ ActiveObjectives(model) = <<>>) =>
         /\ last'.err = "ok"
         /\ DOMAIN solver'._referenced_variables = last.vars0
         /\ DOMAIN solver'._vars = last.vars0
         /\ DOMAIN solver'._vars_referenced_by_con = last.known0
         /\ DOMAIN solver'._active_constraints = last.known0
         /\ solver'._params = last.params0]_vars

----------------------------------------------------------------------------
(* Variable lifetime in only_child_vars mode, checked under SpecChild.      *)

EntityCalls ==
    {"add_constraints", "add_sos_constraints", "set_objective",
     "remove_constraints", "remove_sos_constraints"}

VariablePrimitives ==
    {i \in 1..Len(calls') :
       calls'[i].op \in {"add_variables", "remove_variables"}}

\* C31: in only_child_vars mode a call of add_constraints,
\* add_sos_constraints, set_objective, remove_constraints or
\* remove_sos_constraints leaves the keys of the variable registry as they
\* were and issues no add_variables or remove_variables primitive; and an
\* add_sos_constraints call that directly follows the removal of the same
\* SOS constraints returns and finds the registry as it was before the
\* removal.
C31_ExplicitLifetime ==
    [][/\ (solver._only_child_vars /\ last'.op \in EntityCalls) =>
            /\ DOMAIN solver'._vars = DOMAIN solver._vars
            /\ DOMAIN solver'._referenced_variables
                 = DOMAIN solver._referenced_variables
            /\ VariablePrimitives = {}
       /\ (/\ solver._only_child_vars
           /\ last.op = "remove_sos_constraints"
           /\ last.err = "ok"
           /\ last'.op = "add_sos_constraints"
           /\ last'.args = last.args) =>
            /\ last'.err = "ok"
            /\ DOMAIN solver'._vars = last.vars0]_vars

----------------------------------------------------------------------------
(* The bounds of _GDPoptAlgorithm, checked under SpecGDPopt.                *)

Given(new, old) == IF new # NoValue THEN new ELSE old

\* C32: an _update_bounds(primal, dual) call that returns, the model given
\* to solve() having a minimize objective (sense 1), leaves UB = primal and
\* LB = dual; with a maximize objective it leaves LB = primal and UB = dual;
\* an argument that is None leaves its bound as it was; and no other
\* attribute of the algorithm object changes.
C32_BoundsBySense ==
    [][(last'.op = "_update_bounds" /\ last'.err = "ok") =>
         /\ model.sense = 1 =>
              /\ solver'.UB = Given(last'.args[1], solver.UB)
              /\ solver'.LB = Given(last'.args[2], solver.LB)
         /\ model.sense = -1 =>
              /\ solver'.LB = Given(last'.args[1], solver.LB)
              /\ solver'.UB = Given(last'.args[2], solver.UB)
         /\ [solver' EXCEPT !.LB = NoValue, !.UB = NoValue]
              = [solver EXCEPT !.LB = NoValue, !.UB = NoValue]]_vars

====
